---- MODULE Spec2Model ----
(***************************************************************************)
(* Model of the lyrics-manager entity store (the Motoko actor embedded in  *)
(* src/frontend/src/components/SetListsTab.tsx, lines 732-1245): the Song  *)
(* Store, the Set List Store, the Title Index (titleToId) and the Position *)
(* Side-Tables (setListSongPositions).                                     *)
(*                                                                         *)
(* Text values are sequences of one-character strings, so that toLower,    *)
(* trim and toText are computed rather than assumed.  A Song carries the   *)
(* fields id, title, lyrics, colorRanges, createdAt, updatedAt; the other  *)
(* display attributes of the source record (artist, scrollSpeed, tempo,    *)
(* backgroundColor, textColor, textSize, isBold, linesPerScroll, image)    *)
(* are copied by every handler exactly as lyrics is and are not repeated.  *)
(***************************************************************************)
EXTENDS Integers, Sequences, FiniteSets, TLC

VARIABLES songs, setLists, titleToId, setListSongPositions, now, last, editor

vars == <<songs, setLists, titleToId, setListSongPositions, now, last, editor>>

(***************************************************************************)
(* Bounds                                                                  *)
(***************************************************************************)
\* Time.now() ranges over 1..MaxTime.
MaxTime == 2
\* At most MaxSongs records in the Song Store.
MaxSongs == 2
\* At most MaxSetLists records in the Set List Store.
MaxSetLists == 1
\* Length of the id sequences handed to createSetList / updateSetList / importData.
MaxLen == 2
\* Length of the lyrics text in the editor.
MaxText == 2
\* Number of color highlights in the editor.
MaxRanges == 2

(***************************************************************************)
(* Text                                                                    *)
(***************************************************************************)
UpperAlpha == <<"A", "B", "C", "D", "E", "F", "G", "H", "I", "J", "K", "L", "M",
                "N", "O", "P", "Q", "R", "S", "T", "U", "V", "W", "X", "Y", "Z">>

LowerAlpha == <<"a", "b", "c", "d", "e", "f", "g", "h", "i", "j", "k", "l", "m",
                "n", "o", "p", "q", "r", "s", "t", "u", "v", "w", "x", "y", "z">>

Digits == <<"0", "1", "2", "3", "4", "5", "6", "7", "8", "9">>

\* Text.toLower on one character: the upper-case letters and their images.
UpperToLower ==
  [c \in {UpperAlpha[i] : i \in 1..Len(UpperAlpha)} |->
     LowerAlpha[CHOOSE i \in 1..Len(UpperAlpha) : UpperAlpha[i] = c]]

ToLowerChar(c) == IF c \in DOMAIN UpperToLower THEN UpperToLower[c] ELSE c

ToLower(t) == [i \in 1..Len(t) |-> ToLowerChar(t[i])]

RECURSIVE TrimStart(_)
TrimStart(t) ==
  IF t # <<>> /\ Head(t) = " " THEN TrimStart(Tail(t)) ELSE t

RECURSIVE TrimEnd(_)
TrimEnd(t) ==
  IF t # <<>> /\ t[Len(t)] = " " THEN TrimEnd(SubSeq(t, 1, Len(t) - 1)) ELSE t

Trim(t) == TrimEnd(TrimStart(t))

Abs(n) == IF n < 0 THEN -n ELSE n

RECURSIVE NatToText(_)
NatToText(n) ==
  IF n < 10 THEN <<Digits[n + 1]>>
  ELSE NatToText(n \div 10) \o <<Digits[(n % 10) + 1]>>

ToText(n) == IF n < 0 THEN <<"-">> \o NatToText(-n) ELSE NatToText(n)

(***************************************************************************)
(* Maps (mo:core/Map) and Lists (mo:core/List)                             *)
(***************************************************************************)
EmptyMap == [k \in {} |-> 0]

MapAdd(m, k, v) == [x \in DOMAIN m \cup {k} |-> IF x = k THEN v ELSE m[x]]

MapRemove(m, k) == [x \in DOMAIN m \ {k} |-> m[x]]

RECURSIVE ListFilter(_, _)
\* positions.filter(func(pos) { pos.songId != songId })
ListFilter(positions, songId) ==
  IF positions = <<>> THEN <<>>
  ELSE IF Head(positions).songId # songId
       THEN <<Head(positions)>> \o ListFilter(Tail(positions), songId)
       ELSE ListFilter(Tail(positions), songId)

\* Characters in the order Text.compare places them.
CharOrder == <<" ", "-">> \o Digits \o UpperAlpha \o LowerAlpha

CharCode ==
  [c \in {CharOrder[i] : i \in 1..Len(CharOrder)} |->
     CHOOSE i \in 1..Len(CharOrder) : CharOrder[i] = c]

RECURSIVE TextLess(_, _)
TextLess(a, b) ==
  IF b = <<>> THEN FALSE
  ELSE IF a = <<>> THEN TRUE
  ELSE IF Head(a) = Head(b) THEN TextLess(Tail(a), Tail(b))
  ELSE CharCode[Head(a)] < CharCode[Head(b)]

RECURSIVE KeysInOrder(_)
\* The keys of a Map in iteration order (ascending).
KeysInOrder(K) ==
  IF K = {} THEN <<>>
  ELSE LET k == CHOOSE x \in K : \A o \in K \ {x} : TextLess(x, o)
       IN <<k>> \o KeysInOrder(K \ {k})

\* MapValues that leaves out the value under the last key.
MapValuesButLast(m) ==
  LET keys == KeysInOrder(DOMAIN m)
  IN [i \in 1..(IF keys = <<>> THEN 0 ELSE Len(keys) - 1) |-> m[keys[i]]]

\* m.values().toArray()
MapValues(m) ==
  LET keys == KeysInOrder(DOMAIN m)
  IN [i \in 1..Len(keys) |-> m[keys[i]]]

(***************************************************************************)
(* Helper functions of the actor                                           *)
(***************************************************************************)
RandomPart(t) == Abs((t * 100000000) % 100000000)

RandomString(randomPart) ==
  IF randomPart % 10 = 0 THEN ToText(randomPart) \o <<"a">>
  ELSE IF randomPart % 11 = 0 THEN ToText(randomPart) \o <<"b">>
  ELSE IF randomPart % 12 = 0 THEN ToText(randomPart) \o <<"c">>
  ELSE IF randomPart % 13 = 0 THEN ToText(randomPart) \o <<"d">>
  ELSE IF randomPart % 14 = 0 THEN ToText(randomPart) \o <<"e">>
  ELSE IF randomPart % 15 = 0 THEN ToText(randomPart) \o <<"f">>
  ELSE IF randomPart % 16 = 0 THEN ToText(randomPart) \o <<"g">>
  ELSE IF randomPart % 17 = 0 THEN ToText(randomPart) \o <<"h">>
  ELSE IF randomPart % 18 = 0 THEN ToText(randomPart) \o <<"i">>
  ELSE IF randomPart % 19 = 0 THEN ToText(randomPart) \o <<"j">>
  ELSE IF randomPart % 30 = 0 THEN ToText(randomPart) \o <<"k">>
  ELSE ToText(randomPart)

\* generateId(): timestampPart # randomString, both derived from Time.now().
GenerateId(t) == ToText(t) \o RandomString(RandomPart(t))

NormalizeTitle(title) == Trim(ToLower(title))

\* The table after removeSongFromSetListPositions(setListId, songId).
RemoveSongFromSetListPositions(tables, setListId, songId) ==
  IF setListId \notin DOMAIN tables THEN tables
  ELSE MapAdd(tables, setListId, ListFilter(tables[setListId], songId))

\* The table after updateSongPositionInSetList(setListId, songId, newPosition).
UpdateSongPositionInSetList(tables, setListId, songId, newPosition) ==
  IF setListId \notin DOMAIN tables THEN tables
  ELSE MapAdd(tables, setListId,
              [i \in 1..Len(tables[setListId]) |->
                 IF tables[setListId][i].songId = songId
                 THEN [songId |-> songId, position |-> newPosition]
                 ELSE tables[setListId][i]])

\* The table after reorderSetList(setListId): entry i gets position i + 1
\* (0-based i), in the order the list already has.
ReorderSetList(tables, setListId) ==
  IF setListId \notin DOMAIN tables THEN tables
  ELSE MapAdd(tables, setListId,
              [i \in 1..Len(tables[setListId]) |->
                 [songId |-> tables[setListId][i].songId, position |-> i]])

(***************************************************************************)
(* Inputs                                                                  *)
(***************************************************************************)
\* What a caller passes to saveSong besides the id: a title with its lyrics
\* and color ranges.  "X" and "x " have the same normalized title; the store
\* does not validate the ranges against the lyrics.
SongForms ==
  { [title |-> <<"X">>, lyrics |-> <<"l", "a">>, colorRanges |-> <<>>],
    [title |-> <<"x", " ">>, lyrics |-> <<>>,
     colorRanges |-> << [start |-> 0, end |-> 1, color |-> <<"r">>] >>],
    [title |-> <<"Y">>, lyrics |-> <<"l", "a">>, colorRanges |-> <<>>] }

\* Identities a caller can name without the store having minted them.
SuppliedSongIds == { <<"s", "1">>, <<"s", "2">> }

Names == { <<"A">>, <<"B">> }

\* The id sequences handed to createSetList and updateSetList.
SongIdSeqs == [1..MaxLen -> SuppliedSongIds]

Reverse(q) == [i \in 1..Len(q) |-> q[Len(q) + 1 - i]]

(***************************************************************************)
(* Records                                                                 *)
(***************************************************************************)
Song(id, title, lyrics, colorRanges, createdAt, updatedAt) ==
  [id |-> id, title |-> title, lyrics |-> lyrics, colorRanges |-> colorRanges,
   createdAt |-> createdAt, updatedAt |-> updatedAt]

SetList(id, name, songIds, createdAt, updatedAt) ==
  [id |-> id, name |-> name, songIds |-> songIds,
   createdAt |-> createdAt, updatedAt |-> updatedAt]

SetListSongPosition(songId, position) ==
  [songId |-> songId, position |-> position]

(***************************************************************************)
(* saveSong: the four arms of switch (id, existingId).  Each gives the     *)
(* Song Store and Title Index after the call and the songId returned.      *)
(***************************************************************************)
\* case (null, ?existingSongId), replaceExisting
SaveSongReplace(existingSongId, title, lyrics, colorRanges) ==
  [songs |-> MapAdd(songs, existingSongId,
                    Song(existingSongId, title, lyrics, colorRanges, now, now)),
   titleToId |-> MapAdd(titleToId, NormalizeTitle(title), existingSongId),
   songId |-> existingSongId]

\* SaveSongAsNew that leaves the Title Index on the earlier song.
SaveSongAsNewUnindexed(title, lyrics, colorRanges) ==
  LET newId == GenerateId(now)
  IN [songs |-> MapAdd(songs, newId,
                       Song(newId, title, lyrics, colorRanges, now, now)),
      titleToId |-> titleToId,
      songId |-> newId]

\* case (null, ?existingSongId), not replaceExisting
SaveSongAsNew(title, lyrics, colorRanges) ==
  LET newId == GenerateId(now)
  IN [songs |-> MapAdd(songs, newId,
                       Song(newId, title, lyrics, colorRanges, now, now)),
      titleToId |-> MapAdd(titleToId, NormalizeTitle(title), newId),
      songId |-> newId]

\* SaveSongUpdate with the creation timestamp taken from the clock.
SaveSongUpdateFresh(songId, title, lyrics, colorRanges) ==
  [songs |-> MapAdd(songs, songId,
                    Song(songId, title, lyrics, colorRanges, now, now)),
   titleToId |-> MapAdd(titleToId, NormalizeTitle(title), songId),
   songId |-> songId]

\* case (?songId, _)
SaveSongUpdate(songId, title, lyrics, colorRanges) ==
  LET createdAt == IF songId \in DOMAIN songs
                   THEN songs[songId].createdAt
                   ELSE now
  IN [songs |-> MapAdd(songs, songId,
                       Song(songId, title, lyrics, colorRanges, createdAt, now)),
      titleToId |-> MapAdd(titleToId, NormalizeTitle(title), songId),
      songId |-> songId]

\* case (null, null)
SaveSongCreate(title, lyrics, colorRanges) ==
  LET newId == GenerateId(now)
  IN [songs |-> MapAdd(songs, newId,
                       Song(newId, title, lyrics, colorRanges, now, now)),
      titleToId |-> MapAdd(titleToId, NormalizeTitle(title), newId),
      songId |-> newId]

SaveSongBranch(hasId, title, replaceExisting) ==
  IF hasId THEN "update"
  ELSE IF NormalizeTitle(title) \in DOMAIN titleToId
       THEN (IF replaceExisting THEN "replace" ELSE "asNew")
       ELSE "create"

SaveSongResult(hasId, id, title, lyrics, colorRanges, replaceExisting) ==
  LET branch == SaveSongBranch(hasId, title, replaceExisting)
  IN CASE branch = "replace" ->
            SaveSongReplace(titleToId[NormalizeTitle(title)], title, lyrics, colorRanges)
       [] branch = "asNew"  -> SaveSongAsNew(title, lyrics, colorRanges)
       [] branch = "update" -> SaveSongUpdate(id, title, lyrics, colorRanges)
       [] branch = "create" -> SaveSongCreate(title, lyrics, colorRanges)

\* The actor's side of saveSong.  hasId = FALSE is the call with id = null
\* (id is then ignored).
SaveSongMessage(hasId, id, title, lyrics, colorRanges, replaceExisting) ==
  LET r == SaveSongResult(hasId, id, title, lyrics, colorRanges, replaceExisting)
  IN /\ songs' = r.songs
     /\ titleToId' = r.titleToId
     /\ last' = [op |-> "saveSong", hasId |-> hasId, id |-> id, title |-> title,
                 lyrics |-> lyrics, colorRanges |-> colorRanges,
                 replaceExisting |-> replaceExisting,
                 branch |-> SaveSongBranch(hasId, title, replaceExisting),
                 songId |-> r.songId]
     /\ UNCHANGED <<setLists, setListSongPositions, now>>

\* saveSong called from outside the client's forms.
SaveSong(hasId, id, title, lyrics, colorRanges, replaceExisting) ==
  /\ SaveSongMessage(hasId, id, title, lyrics, colorRanges, replaceExisting)
  /\ UNCHANGED editor

(***************************************************************************)
(* deleteSong                                                              *)
(***************************************************************************)
\* RemoveSongFromAll that cleans the table of one set list only.
RemoveSongFromOne(tables, setListIds, songId) ==
  IF setListIds = {} THEN tables
  ELSE RemoveSongFromSetListPositions(tables, CHOOSE l \in setListIds : TRUE, songId)

RECURSIVE RemoveSongFromAll(_, _, _)
\* for ((setListId, _) in setLists.entries()) removeSongFromSetListPositions
RemoveSongFromAll(tables, setListIds, songId) ==
  IF setListIds = {} THEN tables
  ELSE LET setListId == CHOOSE l \in setListIds : TRUE
       IN RemoveSongFromAll(RemoveSongFromSetListPositions(tables, setListId, songId),
                            setListIds \ {setListId}, songId)

\* The Title Index after deleteSong(id) of an existing song.
DeleteSongTitle(id) ==
  LET normalizedTitle == NormalizeTitle(songs[id].title)
  IN IF normalizedTitle \in DOMAIN titleToId /\ titleToId[normalizedTitle] = id
     THEN MapRemove(titleToId, normalizedTitle)
     ELSE titleToId

\* DeleteSong that, for a song not in the Song Store, still clears its
\* entries from the Position Side-Tables.
DeleteSongLenient(id) ==
  /\ titleToId' = IF id \in DOMAIN songs THEN DeleteSongTitle(id) ELSE titleToId
  /\ songs' = MapRemove(songs, id)
  /\ setListSongPositions' =
       RemoveSongFromAll(setListSongPositions, DOMAIN setLists, id)
  /\ last' = [op |-> "deleteSong", id |-> id, ok |-> id \in DOMAIN songs]
  /\ UNCHANGED <<setLists, now, editor>>

DeleteSong(id) ==
  IF id \notin DOMAIN songs
  THEN /\ last' = [op |-> "deleteSong", id |-> id, ok |-> FALSE]
       /\ UNCHANGED <<songs, setLists, titleToId, setListSongPositions, now, editor>>
  ELSE /\ titleToId' = DeleteSongTitle(id)
       /\ songs' = MapRemove(songs, id)
       /\ setListSongPositions' =
            RemoveSongFromAll(setListSongPositions, DOMAIN setLists, id)
       /\ last' = [op |-> "deleteSong", id |-> id, ok |-> TRUE]
       /\ UNCHANGED <<setLists, now, editor>>

(***************************************************************************)
(* Set list management                                                     *)
(***************************************************************************)
\* The Set List Store after createSetList(name, songIds); the Position
\* Side-Tables are not written by this handler.
CreateSetListStore(name, songIds) ==
  MapAdd(setLists, GenerateId(now), SetList(GenerateId(now), name, songIds, now, now))

CreateSetList(name, songIds) ==
  /\ setLists' = CreateSetListStore(name, songIds)
  /\ last' = [op |-> "createSetList", name |-> name, songIds |-> songIds,
              id |-> GenerateId(now)]
  /\ UNCHANGED <<songs, titleToId, setListSongPositions, now, editor>>

\* UpdateSetList that also rebuilds the Position Side-Table from songIds.
UpdateSetListRebuilding(id, name, songIds) ==
  IF id \notin DOMAIN setLists
  THEN /\ last' = [op |-> "updateSetList", id |-> id, name |-> name,
                   songIds |-> songIds, ok |-> FALSE]
       /\ UNCHANGED <<songs, setLists, titleToId, setListSongPositions, now, editor>>
  ELSE /\ setLists' = MapAdd(setLists, id,
                             SetList(id, name, songIds, setLists[id].createdAt, now))
       /\ setListSongPositions' =
            MapAdd(setListSongPositions, id,
                   [i \in 1..Len(songIds) |-> SetListSongPosition(songIds[i], i)])
       /\ last' = [op |-> "updateSetList", id |-> id, name |-> name,
                   songIds |-> songIds, ok |-> TRUE]
       /\ UNCHANGED <<songs, titleToId, now, editor>>

\* The actor's side of updateSetList.
UpdateSetListMessage(id, name, songIds) ==
  IF id \notin DOMAIN setLists
  THEN /\ last' = [op |-> "updateSetList", id |-> id, name |-> name,
                   songIds |-> songIds, ok |-> FALSE]
       /\ UNCHANGED <<songs, setLists, titleToId, setListSongPositions, now>>
  ELSE /\ setLists' = MapAdd(setLists, id,
                             SetList(id, name, songIds, setLists[id].createdAt, now))
       /\ last' = [op |-> "updateSetList", id |-> id, name |-> name,
                   songIds |-> songIds, ok |-> TRUE]
       /\ UNCHANGED <<songs, titleToId, setListSongPositions, now>>

\* updateSetList called from outside the client's forms.
UpdateSetList(id, name, songIds) ==
  UpdateSetListMessage(id, name, songIds) /\ UNCHANGED editor

\* DeleteSetList that leaves the Position Side-Table behind.
DeleteSetListKeepingTable(id) ==
  IF id \notin DOMAIN setLists
  THEN /\ last' = [op |-> "deleteSetList", id |-> id, ok |-> FALSE]
       /\ UNCHANGED <<songs, setLists, titleToId, setListSongPositions, now, editor>>
  ELSE /\ setLists' = MapRemove(setLists, id)
       /\ last' = [op |-> "deleteSetList", id |-> id, ok |-> TRUE]
       /\ UNCHANGED <<songs, titleToId, setListSongPositions, now, editor>>

DeleteSetList(id) ==
  IF id \notin DOMAIN setLists
  THEN /\ last' = [op |-> "deleteSetList", id |-> id, ok |-> FALSE]
       /\ UNCHANGED <<songs, setLists, titleToId, setListSongPositions, now, editor>>
  ELSE /\ setLists' = MapRemove(setLists, id)
       /\ setListSongPositions' = MapRemove(setListSongPositions, id)
       /\ last' = [op |-> "deleteSetList", id |-> id, ok |-> TRUE]
       /\ UNCHANGED <<songs, titleToId, now, editor>>

\* The Position Side-Tables after a moveSongInSetList that did not trap.
MoveSongTables(setListId, songId, newPosition) ==
  ReorderSetList(
    UpdateSongPositionInSetList(setListSongPositions, setListId, songId, newPosition),
    setListId)

\* setList.songIds.findIndex(func(id) { id == songId }) != null
InSongIds(songIds, songId) == \E i \in 1..Len(songIds) : songIds[i] = songId

\* A move that also writes the table's order into the set list's id sequence.
MoveSongInSetListResequencing(setListId, songId, newPosition) ==
  IF setListId \notin DOMAIN setLists \/ ~InSongIds(setLists[setListId].songIds, songId)
  THEN /\ last' = [op |-> "moveSongInSetList", setListId |-> setListId,
                   songId |-> songId, newPosition |-> newPosition, ok |-> FALSE]
       /\ UNCHANGED <<songs, setLists, titleToId, setListSongPositions, now, editor>>
  ELSE /\ setListSongPositions' = MoveSongTables(setListId, songId, newPosition)
       /\ setLists' =
            IF setListId \in DOMAIN setListSongPositions'
            THEN [setLists EXCEPT ![setListId].songIds =
                    [i \in 1..Len(setListSongPositions'[setListId]) |->
                       setListSongPositions'[setListId][i].songId]]
            ELSE setLists
       /\ last' = [op |-> "moveSongInSetList", setListId |-> setListId,
                   songId |-> songId, newPosition |-> newPosition, ok |-> TRUE]
       /\ UNCHANGED <<songs, titleToId, now, editor>>

MoveSongInSetList(setListId, songId, newPosition) ==
  IF setListId \notin DOMAIN setLists \/ ~InSongIds(setLists[setListId].songIds, songId)
  THEN /\ last' = [op |-> "moveSongInSetList", setListId |-> setListId,
                   songId |-> songId, newPosition |-> newPosition, ok |-> FALSE]
       /\ UNCHANGED <<songs, setLists, titleToId, setListSongPositions, now, editor>>
  ELSE /\ setListSongPositions' = MoveSongTables(setListId, songId, newPosition)
       /\ last' = [op |-> "moveSongInSetList", setListId |-> setListId,
                   songId |-> songId, newPosition |-> newPosition, ok |-> TRUE]
       /\ UNCHANGED <<songs, setLists, titleToId, now, editor>>

(***************************************************************************)
(* Queries                                                                 *)
(***************************************************************************)
RECURSIVE SongsOfUntilMissing(_)
\* SongsOf that stops at the first id that does not resolve.
SongsOfUntilMissing(songIds) ==
  IF songIds = <<>> THEN <<>>
  ELSE IF Head(songIds) \in DOMAIN songs
       THEN <<songs[Head(songIds)]>> \o SongsOfUntilMissing(Tail(songIds))
       ELSE <<>>

RECURSIVE SongsOf(_)
\* for (songId in setList.songIds.values()) switch (songs.get(songId)) ...
SongsOf(songIds) ==
  IF songIds = <<>> THEN <<>>
  ELSE IF Head(songIds) \in DOMAIN songs
       THEN <<songs[Head(songIds)]>> \o SongsOf(Tail(songIds))
       ELSE SongsOf(Tail(songIds))

\* Defined for an existing set list; the handler traps otherwise.
GetSongsInSetList(setListId) == SongsOf(setLists[setListId].songIds)

\* Defined for an existing set list; the handler traps otherwise.
GetSetListSongInfo(setListId) ==
  [setList |-> setLists[setListId],
   songPositions |-> IF setListId \in DOMAIN setListSongPositions
                     THEN setListSongPositions[setListId]
                     ELSE <<>>]

IsTitleUnique(title) == NormalizeTitle(title) \notin DOMAIN titleToId

RECURSIVE CaseLess(_, _)
\* Texts equal up to case: at the first difference a has the lower-case letter.
CaseLess(a, b) ==
  IF a = <<>> \/ b = <<>> THEN FALSE
  ELSE IF Head(a) = Head(b) THEN CaseLess(Tail(a), Tail(b))
  ELSE ToLowerChar(Head(a)) = Head(a)

\* a.localeCompare(b) < 0: letters compare without case first, and texts
\* equal up to case put the lower-case letter first.
LocaleLess(a, b) ==
  IF ToLower(a) # ToLower(b) THEN TextLess(ToLower(a), ToLower(b))
  ELSE CaseLess(a, b)

\* The title a sorts before b under the comparison named by order.
TitleBefore(order, a, b) ==
  IF order = "Text.compare" THEN TextLess(a, b) ELSE LocaleLess(a, b)

RECURSIVE InsertByTitle(_, _, _)
\* Insert song after every song that does not sort after it.
InsertByTitle(sorted, song, order) ==
  IF sorted = <<>> THEN <<song>>
  ELSE IF ~TitleBefore(order, song.title, Head(sorted).title)
       THEN <<Head(sorted)>> \o InsertByTitle(Tail(sorted), song, order)
       ELSE <<song>> \o sorted

RECURSIVE SortByTitle(_, _)
\* array.sort by title; songs of equal title keep their order.
SortByTitle(array, order) ==
  IF array = <<>> THEN <<>>
  ELSE InsertByTitle(SortByTitle(SubSeq(array, 1, Len(array) - 1), order),
                     array[Len(array)], order)

\* getAllSongs on the Song Store m: the values sorted by Text.compare of title.
GetAllSongs(m) == SortByTitle(MapValues(m), "Text.compare")

ExportData == [songs |-> MapValues(songs), setLists |-> MapValues(setLists)]

ExportDataQuery ==
  /\ last' = [op |-> "exportData", data |-> ExportData]
  /\ UNCHANGED <<songs, setLists, titleToId, setListSongPositions, now, editor>>

\* The query calls: each answers or traps, and writes nothing.
GetSongQuery(id) ==
  /\ last' = IF id \in DOMAIN songs
             THEN [op |-> "getSong", id |-> id, ok |-> TRUE, song |-> songs[id]]
             ELSE [op |-> "getSong", id |-> id, ok |-> FALSE]
  /\ UNCHANGED <<songs, setLists, titleToId, setListSongPositions, now, editor>>

GetSongsInSetListQuery(setListId) ==
  /\ last' = IF setListId \in DOMAIN setLists
             THEN [op |-> "getSongsInSetList", setListId |-> setListId, ok |-> TRUE,
                   songs |-> GetSongsInSetList(setListId)]
             ELSE [op |-> "getSongsInSetList", setListId |-> setListId, ok |-> FALSE]
  /\ UNCHANGED <<songs, setLists, titleToId, setListSongPositions, now, editor>>

GetSetListSongInfoQuery(setListId) ==
  /\ last' = IF setListId \in DOMAIN setLists
             THEN [op |-> "getSetListSongInfo", setListId |-> setListId, ok |-> TRUE,
                   info |-> GetSetListSongInfo(setListId)]
             ELSE [op |-> "getSetListSongInfo", setListId |-> setListId, ok |-> FALSE]
  /\ UNCHANGED <<songs, setLists, titleToId, setListSongPositions, now, editor>>

(***************************************************************************)
(* importData                                                              *)
(***************************************************************************)
RECURSIVE ImportSongs(_, _)
\* The Song Store after the songs loop, starting from store m.
ImportSongs(m, songArray) ==
  IF songArray = <<>> THEN m
  ELSE ImportSongs(MapAdd(m, Head(songArray).id, Head(songArray)), Tail(songArray))

RECURSIVE ImportTitlesFirstWins(_, _)
\* ImportTitles that keeps the entry a title already has.
ImportTitlesFirstWins(m, songArray) ==
  IF songArray = <<>> THEN m
  ELSE ImportTitlesFirstWins(
         IF NormalizeTitle(Head(songArray).title) \in DOMAIN m THEN m
         ELSE MapAdd(m, NormalizeTitle(Head(songArray).title), Head(songArray).id),
         Tail(songArray))

RECURSIVE ImportTitles(_, _)
\* The Title Index after the songs loop, starting from index m.
ImportTitles(m, songArray) ==
  IF songArray = <<>> THEN m
  ELSE ImportTitles(MapAdd(m, NormalizeTitle(Head(songArray).title), Head(songArray).id),
                    Tail(songArray))

RECURSIVE ImportSetLists(_, _)
ImportSetLists(m, setListArray) ==
  IF setListArray = <<>> THEN m
  ELSE ImportSetLists(MapAdd(m, Head(setListArray).id, Head(setListArray)),
                      Tail(setListArray))

\* while (i < setList.songIds.size()) positions.add({songIds[i], i + 1})
InitialPositions(songIds) ==
  [i \in 1..Len(songIds) |-> SetListSongPosition(songIds[i], i)]

RECURSIVE ImportPositions(_, _)
ImportPositions(m, setListArray) ==
  IF setListArray = <<>> THEN m
  ELSE ImportPositions(MapAdd(m, Head(setListArray).id,
                              InitialPositions(Head(setListArray).songIds)),
                       Tail(setListArray))

\* ImportData that adds the snapshot to the stores without clearing them.
ImportDataMerging(data) ==
  /\ songs' = ImportSongs(songs, data.songs)
  /\ titleToId' = ImportTitles(titleToId, data.songs)
  /\ setLists' = ImportSetLists(setLists, data.setLists)
  /\ setListSongPositions' = ImportPositions(setListSongPositions, data.setLists)
  /\ last' = [op |-> "importData", data |-> data]
  /\ UNCHANGED <<now, editor>>

\* The actor's side of importData.
ImportDataMessage(data) ==
  /\ songs' = ImportSongs(EmptyMap, data.songs)
  /\ titleToId' = ImportTitles(EmptyMap, data.songs)
  /\ setLists' = ImportSetLists(EmptyMap, data.setLists)
  /\ setListSongPositions' = ImportPositions(EmptyMap, data.setLists)
  /\ last' = [op |-> "importData", data |-> data]
  /\ UNCHANGED now

\* importData called from outside the client's forms.
ImportData(data) == ImportDataMessage(data) /\ UNCHANGED editor

(***************************************************************************)
(* The song editor (SongEditorTab.tsx): the form fields title, lyrics and  *)
(* colorHighlights, the song under edit (editorState.songId), the title    *)
(* conflict dialog and allSongs, the result of useGetAllSongs that          *)
(* useCheckTitleConflict reads.  The record also holds what the set lists  *)
(* tab keeps: setLists, the result of useGetAllSetLists, and the set list  *)
(* mutations that have read the set list and not yet written it.          *)
(***************************************************************************)
\* The form after clearForm(), with no song under edit.
\* The client runs up to two set list mutations at a time.
MutationSlots == {1, 2}

\* A mutation slot in which no mutationFn is running.  A running one holds
\* the hook (kind), its data and the updateSetList call it is about to make.
NoMutation ==
  [kind |-> "none", setListId |-> <<>>, songId |-> <<>>, direction |-> "none",
   inputValue |-> <<>>, name |-> <<>>, songIds |-> <<>>]

\* conflictingSong when it is null
NoSong == [id |-> <<>>, title |-> <<>>]

EditorDefault ==
  [hasId |-> FALSE, id |-> <<>>, title |-> <<>>, lyrics |-> <<>>,
   colorHighlights |-> <<>>,
   showTitleConflictDialog |-> FALSE, conflictingSong |-> NoSong,
   allSongs |-> <<>>, setLists |-> <<>>,
   mutations |-> [slot \in MutationSlots |-> NoMutation]]

RECURSIVE InsertByStart(_, _)
\* Insert h after every highlight whose start is not larger (the sort is stable).
InsertByStart(sorted, h) ==
  IF sorted = <<>> THEN <<h>>
  ELSE IF Head(sorted).start <= h.start
       THEN <<Head(sorted)>> \o InsertByStart(Tail(sorted), h)
       ELSE <<h>> \o sorted

RECURSIVE SortByStart(_)
\* [...highlights].sort((a, b) => Number(a.start) - Number(b.start))
SortByStart(highlights) ==
  IF highlights = <<>> THEN <<>>
  ELSE InsertByStart(SortByStart(SubSeq(highlights, 1, Len(highlights) - 1)),
                     highlights[Len(highlights)])

\* ValidRange that rejects a range ending at the end of the text.
ValidRangeInside(h, text) == h.start < h.end /\ h.start >= 0 /\ h.end < Len(text)

\* start < end && start >= 0 && end <= text.length
ValidRange(h, text) == h.start < h.end /\ h.start >= 0 /\ h.end <= Len(text)

RECURSIVE FilterValidClamping(_, _)
\* FilterValid that cuts a range running past the text down to the text's end.
FilterValidClamping(sorted, text) ==
  IF sorted = <<>> THEN <<>>
  ELSE LET h == Head(sorted)
           cut == [h EXCEPT !.end = IF h.end > Len(text) THEN Len(text) ELSE h.end]
       IN IF ValidRange(cut, text)
          THEN <<cut>> \o FilterValidClamping(Tail(sorted), text)
          ELSE FilterValidClamping(Tail(sorted), text)

RECURSIVE FilterValid(_, _)
FilterValid(sorted, text) ==
  IF sorted = <<>> THEN <<>>
  ELSE IF ValidRange(Head(sorted), text)
       THEN <<Head(sorted)>> \o FilterValid(Tail(sorted), text)
       ELSE FilterValid(Tail(sorted), text)

RECURSIVE RemoveOverlapsKeepTouching(_, _)
\* RemoveOverlaps that compares a start with the start before it.
RemoveOverlapsKeepTouching(valid, lastEnd) ==
  IF valid = <<>> THEN <<>>
  ELSE IF Head(valid).start >= lastEnd
       THEN <<Head(valid)>> \o RemoveOverlapsKeepTouching(Tail(valid), Head(valid).start + 1)
       ELSE RemoveOverlapsKeepTouching(Tail(valid), lastEnd)

RECURSIVE RemoveOverlaps(_, _)
\* for (const highlight of valid) if (start >= lastEnd) { push; lastEnd = end }
RemoveOverlaps(valid, lastEnd) ==
  IF valid = <<>> THEN <<>>
  ELSE IF Head(valid).start >= lastEnd
       THEN <<Head(valid)>> \o RemoveOverlaps(Tail(valid), Head(valid).end)
       ELSE RemoveOverlaps(Tail(valid), lastEnd)

RebuildColorRanges(text, highlights) ==
  IF Len(highlights) = 0 THEN <<>>
  ELSE RemoveOverlaps(FilterValid(SortByStart(highlights), text), 0)

\* One evaluation of rebuildColorRanges(text, highlights).
Rebuild(text, highlights) ==
  /\ last' = [op |-> "rebuildColorRanges", text |-> text, highlights |-> highlights,
              result |-> RebuildColorRanges(text, highlights)]
  /\ UNCHANGED <<songs, setLists, titleToId, setListSongPositions, now, editor>>

\* A step of the editor writes the form and calls nothing.
EditorWrites(form) ==
  /\ editor' = form
  /\ last' = [op |-> "edit"]
  /\ UNCHANGED <<songs, setLists, titleToId, setListSongPositions, now>>

\* onChange of the title input
SetTitle(title) == EditorWrites([editor EXCEPT !.title = title])

\* handleLyricsChange: the highlights are left as they are.
HandleLyricsChange(newValue) == EditorWrites([editor EXCEPT !.lyrics = newValue])

\* handleApplyTextColorInstantly on the selection start..end of the textarea.
HandleApplyTextColorInstantly(start, end, color) ==
  IF start = end THEN EditorWrites(editor)
  ELSE EditorWrites([editor EXCEPT !.colorHighlights =
                       Append(@, [start |-> start, end |-> end, color |-> color])])

HandleClearTextColors == EditorWrites([editor EXCEPT !.colorHighlights = <<>>])

\* The effect that loads the song under edit into the form.
LoadExistingSong(id) ==
  /\ id \in DOMAIN songs
  /\ EditorWrites([editor EXCEPT !.hasId = TRUE, !.id = id,
                                  !.title = songs[id].title,
                                  !.lyrics = songs[id].lyrics,
                                  !.colorHighlights = songs[id].colorRanges])

RECURSIVE DeduplicateSongs(_, _)
\* songMap of useImportData and of useGetAllSongs: a song replaces the one kept under its id only
\* if its updatedAt is larger, and keeps that one's place.
DeduplicateSongs(kept, songArray) ==
  IF songArray = <<>> THEN kept
  ELSE LET song == Head(songArray)
           at == {i \in 1..Len(kept) : kept[i].id = song.id}
       IN DeduplicateSongs(
            IF at = {} THEN Append(kept, song)
            ELSE IF song.updatedAt > kept[CHOOSE i \in at : TRUE].updatedAt
                 THEN [i \in 1..Len(kept) |-> IF i \in at THEN song ELSE kept[i]]
                 ELSE kept,
            Tail(songArray))

\* queryFn of useGetAllSongs on the Song Store m: getAllSongs, one song per
\* id, sorted by localeCompare of title.
UseGetAllSongs(m) == SortByTitle(DeduplicateSongs(<<>>, GetAllSongs(m)), "localeCompare")

\* The function useCheckTitleConflict returns, over the songs allSongs;
\* hasId = FALSE is the call with currentSongId undefined.
CheckTitleConflict(allSongs, title, hasId, currentSongId) ==
  LET normalizedTitle == ToLower(Trim(title))
      found == SelectSeq(allSongs,
                 LAMBDA song : /\ ToLower(song.title) = normalizedTitle
                               /\ (~hasId \/ song.id # currentSongId))
  IN IF found = <<>> THEN NoSong
     ELSE [id |-> Head(found).id, title |-> Head(found).title]

\* performSave(replaceExisting) on the form: useSaveSong hands the data to
\* saveSong as they are, and its onSuccess refetches the songs.
PerformSaveWith(form, replaceExisting) ==
  /\ SaveSongMessage(form.hasId, form.id, Trim(form.title), Trim(form.lyrics),
                  RebuildColorRanges(form.lyrics, form.colorHighlights),
                  replaceExisting)
  /\ editor' = [form EXCEPT !.allSongs = UseGetAllSongs(songs')]

\* performSave(replaceExisting), reached when the title is not blank.
PerformSave(replaceExisting) ==
  /\ Trim(editor.title) # <<>>
  /\ PerformSaveWith(editor, replaceExisting)

\* handleSaveClick: a blank title returns at once; a conflict opens the
\* dialog and saves nothing; no conflict saves with replaceExisting = false.
HandleSaveClick ==
  /\ Trim(editor.title) # <<>>
  /\ LET conflict == CheckTitleConflict(editor.allSongs, Trim(editor.title),
                                        editor.hasId, editor.id)
     IN IF conflict # NoSong
        THEN EditorWrites([editor EXCEPT !.conflictingSong = conflict,
                                         !.showTitleConflictDialog = TRUE])
        ELSE PerformSave(FALSE)

\* "Replace existing song" of the dialog
HandleTitleConflictReplace ==
  /\ editor.showTitleConflictDialog
  /\ PerformSaveWith([editor EXCEPT !.showTitleConflictDialog = FALSE], TRUE)

\* "Save as new song" of the dialog
HandleTitleConflictSaveAsNew ==
  /\ editor.showTitleConflictDialog
  /\ PerformSaveWith([editor EXCEPT !.showTitleConflictDialog = FALSE], FALSE)

\* "Cancel" of the dialog
HandleTitleConflictCancel ==
  /\ editor.showTitleConflictDialog
  /\ EditorWrites([editor EXCEPT !.showTitleConflictDialog = FALSE,
                                   !.conflictingSong = NoSong])

UntitledSong == <<"U", "n", "t", "i", "t", "l", "e", "d", " ", "S", "o", "n", "g">>

\* The song handlePreviewClick hands to onPreview.
PreviewSong ==
  Song(IF editor.hasId THEN editor.id ELSE <<"p", "r", "e", "v", "i", "e", "w">>,
       IF Trim(editor.title) # <<>> THEN Trim(editor.title) ELSE UntitledSong,
       Trim(editor.lyrics),
       RebuildColorRanges(editor.lyrics, editor.colorHighlights),
       now, now)

HandlePreviewClick ==
  /\ last' = [op |-> "preview", song |-> PreviewSong]
  /\ UNCHANGED <<songs, setLists, titleToId, setListSongPositions, now, editor>>

(***************************************************************************)
(* The import paths of the client (useQueries.ts)                          *)
(***************************************************************************)
\* useImportSongs.mutationFn on one song file: saveSong(null, ..., false);
\* onSuccess refetches the songs.
ImportSongFile(file) ==
  /\ SaveSongMessage(FALSE, <<>>, file.title, file.lyrics, file.colorRanges, FALSE)
  /\ editor' = [editor EXCEPT !.allSongs = UseGetAllSongs(songs')]

\* useImportData.mutationFn; onSuccess refetches the songs and the set lists.
ClientImportData(data) ==
  /\ ImportDataMessage([songs |-> DeduplicateSongs(<<>>, data.songs),
                     setLists |-> data.setLists])
  /\ editor' = [editor EXCEPT !.allSongs = UseGetAllSongs(songs'),
                              !.setLists = MapValues(setLists')]

(***************************************************************************)
(* The set list mutations of the client (useQueries.ts) and the position   *)
(* input of the set lists tab (SetListsTab.tsx).  A plan is what a         *)
(* mutationFn decides from the set list it read: write is FALSE when it    *)
(* returns or throws without calling updateSetList.                        *)
(***************************************************************************)
\* setLists.find(sl => sl.id === id); undefined is NoSetList.
NoSetList == SetList(<<>>, <<>>, <<>>, 0, 0)

FindSetList(array, id) ==
  LET found == SelectSeq(array, LAMBDA sl : sl.id = id)
  IN IF found = <<>> THEN NoSetList ELSE Head(found)

\* songIds.indexOf(songId): 0-based, -1 when absent.
IndexOf(songIds, songId) ==
  IF \E i \in 1..Len(songIds) : songIds[i] = songId
  THEN (CHOOSE i \in 1..Len(songIds) :
          /\ songIds[i] = songId
          /\ \A j \in 1..(i - 1) : songIds[j] # songId) - 1
  ELSE -1

\* array.splice(index, 1) and array.splice(index, 0, item), index 0-based
RemoveAt(array, index) ==
  SubSeq(array, 1, index) \o SubSeq(array, index + 2, Len(array))

InsertAt(array, index, item) ==
  SubSeq(array, 1, index) \o <<item>> \o SubSeq(array, index + 1, Len(array))

DigitValue ==
  [c \in {Digits[i] : i \in 1..Len(Digits)} |->
     (CHOOSE i \in 1..Len(Digits) : Digits[i] = c) - 1]

RECURSIVE LeadingDigits(_)
LeadingDigits(t) ==
  IF t # <<>> /\ Head(t) \in DOMAIN DigitValue
  THEN <<Head(t)>> \o LeadingDigits(Tail(t))
  ELSE <<>>

RECURSIVE DigitsToNat(_)
DigitsToNat(d) ==
  IF d = <<>> THEN 0
  ELSE 10 * DigitsToNat(SubSeq(d, 1, Len(d) - 1)) + DigitValue[d[Len(d)]]

\* parseInt(text, 10): leading blanks are skipped, a sign is read, then the
\* digits up to the first other character; no digit gives NaN.
ParseInt(text) ==
  LET t == TrimStart(text)
      signed == t # <<>> /\ Head(t) \in {"-", "+"}
      d == LeadingDigits(IF signed THEN Tail(t) ELSE t)
  IN IF d = <<>> THEN [isNaN |-> TRUE, value |-> 0]
     ELSE [isNaN |-> FALSE,
           value |-> IF signed /\ Head(t) = "-" THEN -DigitsToNat(d)
                     ELSE DigitsToNat(d)]

\* handlePositionCommit that inserts the song without removing it first.
PositionCommitInsertOnly(songIds, songId, inputValue) ==
  LET newPosition == ParseInt(inputValue)
      currentIndex == IndexOf(songIds, songId)
      targetIndex == newPosition.value - 1
  IN IF \/ Trim(inputValue) = <<>>
        \/ newPosition.isNaN
        \/ currentIndex = -1
        \/ targetIndex < 0 \/ targetIndex >= Len(songIds)
        \/ targetIndex = currentIndex
     THEN [write |-> FALSE, songIds |-> songIds]
     ELSE [write |-> TRUE, songIds |-> InsertAt(songIds, targetIndex, songId)]

\* handlePositionCommit on the id sequence of selectedSetList: the sequence
\* handed to reorderMutation, or write = FALSE when the handler returns first.
PositionCommit(songIds, songId, inputValue) ==
  LET newPosition == ParseInt(inputValue)
      currentIndex == IndexOf(songIds, songId)
      targetIndex == newPosition.value - 1
  IN IF \/ Trim(inputValue) = <<>>
        \/ newPosition.isNaN
        \/ currentIndex = -1
        \/ targetIndex < 0 \/ targetIndex >= Len(songIds)
        \/ targetIndex = currentIndex
     THEN [write |-> FALSE, songIds |-> songIds]
     ELSE [write |-> TRUE,
           songIds |-> InsertAt(RemoveAt(songIds, currentIndex), targetIndex, songId)]

\* useAddSongToSetList.mutationFn on the set list it read
AddSongPlan(setList, songId) ==
  IF IndexOf(setList.songIds, songId) # -1
  THEN [write |-> FALSE, name |-> setList.name, songIds |-> setList.songIds]
  ELSE [write |-> TRUE, name |-> setList.name,
        songIds |-> Append(setList.songIds, songId)]

\* useRemoveSongFromSetList.mutationFn on the set list it read
RemoveSongPlan(setList, songId) ==
  [write |-> TRUE, name |-> setList.name,
   songIds |-> SelectSeq(setList.songIds, LAMBDA id : id # songId)]

\* useMoveSongInSetList.mutationFn on the set list it read
MoveSongPlan(setList, songId, direction) ==
  LET currentIndex == IndexOf(setList.songIds, songId)
      newPosition ==
        IF direction = "up" /\ currentIndex > 0 THEN currentIndex - 1
        ELSE IF direction = "down" /\ currentIndex < Len(setList.songIds) - 1
             THEN currentIndex + 1
             ELSE currentIndex
  IN IF currentIndex = -1 \/ newPosition = currentIndex
     THEN [write |-> FALSE, name |-> setList.name, songIds |-> setList.songIds]
     ELSE [write |-> TRUE, name |-> setList.name,
           songIds |-> [i \in 1..Len(setList.songIds) |->
                          IF i = currentIndex + 1 THEN setList.songIds[newPosition + 1]
                          ELSE IF i = newPosition + 1
                               THEN setList.songIds[currentIndex + 1]
                               ELSE setList.songIds[i]]]

\* useReorderSetListSongs.mutationFn on the set list it read
ReorderPlan(setList, songIds) ==
  [write |-> TRUE, name |-> setList.name, songIds |-> songIds]

\* useRenameSetList.mutationFn on the set list it read
RenamePlan(setList, newName) ==
  [write |-> TRUE, name |-> newName, songIds |-> setList.songIds]

\* The plan of the mutation m on the set list it read; a reorder hands over
\* the sequence handlePositionCommit made from the set list the tab shows.
MutationPlan(m, setList, shown) ==
  IF m.kind = "add" THEN AddSongPlan(setList, m.songId)
  ELSE IF m.kind = "remove" THEN RemoveSongPlan(setList, m.songId)
  ELSE IF m.kind = "move" THEN MoveSongPlan(setList, m.songId, m.direction)
  ELSE IF m.kind = "rename" THEN RenamePlan(setList, m.name)
  ELSE ReorderPlan(setList, PositionCommit(shown.songIds, m.songId, m.inputValue).songIds)

\* The first half of a mutationFn in the slot: exportData is answered and
\* the set list is looked up.  A missing set list throws; a plan without a
\* write ends the mutation, and onSuccess refetches the set lists.
MutationFnReads(slot, m) ==
  LET setList == FindSetList(ExportData.setLists, m.setListId)
      shown == FindSetList(editor.setLists, m.setListId)
      plan == MutationPlan(m, setList, shown)
  IN /\ editor.mutations[slot] = NoMutation
     /\ last' = [op |-> "mutationFn", kind |-> m.kind, songId |-> m.songId,
                 direction |-> m.direction, inputValue |-> m.inputValue,
                 found |-> setList # NoSetList,
                 read |-> IF m.kind = "reorder" THEN shown.songIds
                          ELSE setList.songIds,
                 write |-> setList # NoSetList /\ plan.write,
                 songIds |-> plan.songIds]
     /\ editor' =
          IF setList = NoSetList THEN editor
          ELSE IF plan.write
               THEN [editor EXCEPT !.mutations[slot] =
                       [m EXCEPT !.name = plan.name, !.songIds = plan.songIds]]
               ELSE [editor EXCEPT !.setLists = ExportData.setLists]
     /\ UNCHANGED <<songs, setLists, titleToId, setListSongPositions, now>>

\* handlePositionCommit(songId) with inputValue typed for the song, on the
\* selected set list: it returns without a call or runs reorderMutation.
HandlePositionCommit(slot, setListId, songId, inputValue) ==
  LET selectedSetList == FindSetList(editor.setLists, setListId)
      commit == PositionCommit(selectedSetList.songIds, songId, inputValue)
  IN /\ selectedSetList # NoSetList
     /\ IF commit.write
        THEN MutationFnReads(slot, [NoMutation EXCEPT !.kind = "reorder",
                                      !.setListId = setListId, !.songId = songId,
                                      !.inputValue = inputValue])
        ELSE /\ editor.mutations[slot] = NoMutation
             /\ last' = [op |-> "mutationFn", kind |-> "reorder", songId |-> songId,
                         direction |-> "none", inputValue |-> inputValue,
                         found |-> TRUE, read |-> selectedSetList.songIds,
                         write |-> FALSE, songIds |-> commit.songIds]
             /\ UNCHANGED <<songs, setLists, titleToId, setListSongPositions,
                            now, editor>>

\* The second half of the mutationFn in the slot: updateSetList is answered
\* (a trap is the mutation's error), and onSuccess refetches the set lists.
MutationFnWrites(slot) ==
  LET m == editor.mutations[slot]
  IN /\ m # NoMutation
     /\ UpdateSetListMessage(m.setListId, m.name, m.songIds)
     /\ editor' = [editor EXCEPT !.mutations[slot] = NoMutation,
                                 !.setLists = IF last'.ok THEN MapValues(setLists')
                                              ELSE @]

(***************************************************************************)
(* Time.now() does not decrease between messages; it ranges over           *)
(* 1..MaxTime.                                                             *)
(***************************************************************************)
Tick ==
  /\ now < MaxTime
  /\ now' = now + 1
  /\ last' = [op |-> "tick"]
  /\ UNCHANGED <<songs, setLists, titleToId, setListSongPositions, editor>>

(***************************************************************************)
(* Specification                                                           *)
(***************************************************************************)
Init ==
  /\ songs = EmptyMap
  /\ setLists = EmptyMap
  /\ titleToId = EmptyMap
  /\ setListSongPositions = EmptyMap
  /\ now = 1
  /\ last = [op |-> "init"]
  /\ editor = EditorDefault

\* saveSong called with hasId from the tuple H (FALSE is id = null), the id
\* from I, the title and body from F, replaceExisting from R.
SaveSongOver(H, I, F, R) ==
  \E h \in 1..Len(H), form \in F, replaceExisting \in R :
    \E id \in IF H[h] THEN I ELSE {<<>>} :
      SaveSong(H[h], id, form.title, form.lyrics, form.colorRanges, replaceExisting)

DeleteSongOver(I) == \E id \in I : DeleteSong(id)

CreateSetListOver(N, Q) == \E name \in N, songIds \in Q : CreateSetList(name, songIds)

UpdateSetListOver(L, N, Q) ==
  \E id \in L, name \in N, songIds \in Q : UpdateSetList(id, name, songIds)

DeleteSetListOver(L) == \E id \in L : DeleteSetList(id)

MoveSongInSetListOver(L, I, P) ==
  \E setListId \in L, songId \in I, newPosition \in P :
    MoveSongInSetList(setListId, songId, newPosition)

ImportDataOver(D) == \E data \in D : ImportData(data)

(***************************************************************************)
(* Snapshots handed to importData.  Imported records carry timestamp 0.    *)
(***************************************************************************)
SnapshotSong(id, form) == Song(id, form.title, form.lyrics, form.colorRanges, 0, 0)

\* Song arrays: none, one song, two songs with the same normalized title, and
\* two entries with the same id.
SnapshotSongArrays ==
  LET x  == CHOOSE f \in SongForms : f.title = <<"X">>
      xs == CHOOSE f \in SongForms : f.title = <<"x", " ">>
      y  == CHOOSE f \in SongForms : f.title = <<"Y">>
      s1 == <<"s", "1">>
      s2 == <<"s", "2">>
  IN { <<>>,
       << SnapshotSong(s1, x) >>,
       << SnapshotSong(s1, x), SnapshotSong(s2, xs) >>,
       << SnapshotSong(s1, x), SnapshotSong(s2, y) >>,
       << SnapshotSong(s1, x), SnapshotSong(s1, y) >> }

\* Set list arrays: none, one set list "l1", or "l1" followed by "l2" holding
\* the reversed sequence.
SnapshotSetListArrays ==
  {<<>>}
  \cup { << SetList(<<"l", "1">>, <<"A">>, q, 0, 0) >> : q \in SongIdSeqs }
  \cup { << SetList(<<"l", "1">>, <<"A">>, q, 0, 0),
            SetList(<<"l", "2">>, <<"A">>, Reverse(q), 0, 0) >> : q \in SongIdSeqs }

\* Set list arrays in which two records carry the id "l1".
RepeatedSetListArrays ==
  { << SetList(<<"l", "1">>, <<"A">>, q, 0, 0),
       SetList(<<"l", "1">>, <<"B">>, Reverse(q), 0, 0) >> : q \in SongIdSeqs }

(***************************************************************************)
(* Spec: the whole operation surface within one clock reading, on the      *)
(* songs "s1", "s2" and the set lists "l1", "l2" and the one created.      *)
(***************************************************************************)
PlainForm == { f \in SongForms : f.title = <<"X">> }

\* Id sequences that start with "s1".
LeadSeqs == { q \in SongIdSeqs : q[1] = <<"s", "1">> }

\* The id sequence "s1", "s2", ..., "s2".
FirstSeq == [i \in 1..MaxLen |-> IF i = 1 THEN <<"s", "1">> ELSE <<"s", "2">>]

\* Snapshots: no songs or the two songs "s1" and "s2" under different titles;
\* set list "l1" holds a sequence of LeadSeqs.
Snapshots ==
  [songs : { a \in SnapshotSongArrays :
               Len(a) # 1 /\ \A i \in 1..Len(a) : a[i].title # <<"x", " ">>
                                                    /\ a[i].id = <<"s", ToText(i)[1]>> },
   setLists : { a \in SnapshotSetListArrays : \A i \in 1..Len(a) :
                  a[i].id = <<"l", "1">> => a[i].songIds \in LeadSeqs }]

SaveSongStep == SaveSongOver(<<TRUE>>, SuppliedSongIds, PlainForm, {FALSE})

DeleteSongStep == DeleteSongOver(SuppliedSongIds)

CreateSetListStep == CreateSetListOver({<<"A">>}, {FirstSeq})

UpdateSetListStep == UpdateSetListOver({<<"l", "1">>}, {<<"B">>}, LeadSeqs)

DeleteSetListStep == DeleteSetListOver({<<"l", "1">>})

MoveSongInSetListStep ==
  MoveSongInSetListOver({<<"l", "1">>}, SuppliedSongIds, {1, MaxLen})

ImportDataStep == ImportDataOver(Snapshots)

Next ==
  \/ SaveSongStep
  \/ DeleteSongStep
  \/ CreateSetListStep
  \/ UpdateSetListStep
  \/ DeleteSetListStep
  \/ MoveSongInSetListStep
  \/ ImportDataStep

Spec == Init /\ [][Next]_vars

(***************************************************************************)
(* SpecSongs: the Song Store and the Title Index within one clock reading, *)
(* holding at most MaxSongs songs.  Imported songs carry the earlier       *)
(* timestamp 0, so a record older than the call is always at hand.         *)
(***************************************************************************)
SongSnapshots == [songs : SnapshotSongArrays, setLists : {<<>>}]

SaveSongAny ==
  /\ SaveSongOver(<<TRUE, FALSE>>, DOMAIN songs \cup {<<"s", "1">>}, SongForms, BOOLEAN)
  /\ Cardinality(DOMAIN songs') <= MaxSongs

DeleteSongAny == DeleteSongOver(DOMAIN songs \cup {<<"s", "1">>})

ImportSongsStep == ImportDataOver(SongSnapshots)

NextSongs ==
  \/ SaveSongAny
  \/ DeleteSongAny
  \/ ImportSongsStep

SpecSongs == Init /\ [][NextSongs]_vars

(***************************************************************************)
(* SpecSetLists: the Set List Store and the Position Side-Tables within    *)
(* one clock reading, holding at most MaxSetLists set lists.               *)
(***************************************************************************)
SetListSnapshots ==
  [songs : {<<>>},
   setLists : { a \in SnapshotSetListArrays : Len(a) <= MaxSetLists }]

CreateSetListAny ==
  /\ CreateSetListOver({<<"A">>}, SongIdSeqs)
  /\ Cardinality(DOMAIN setLists') <= MaxSetLists

UpdateSetListAny ==
  UpdateSetListOver(DOMAIN setLists \cup {<<"l", "1">>}, Names, SongIdSeqs)

DeleteSetListAny == DeleteSetListOver(DOMAIN setLists \cup {<<"l", "1">>})

MoveSongInSetListAny ==
  MoveSongInSetListOver(DOMAIN setLists \cup {<<"l", "1">>}, SuppliedSongIds,
                        {0, 1, MaxLen})

ImportSetListsStep == ImportDataOver(SetListSnapshots)

NextSetLists ==
  \/ CreateSetListAny
  \/ UpdateSetListAny
  \/ DeleteSetListAny
  \/ MoveSongInSetListAny
  \/ ImportSetListsStep

SpecSetLists == Init /\ [][NextSetLists]_vars

(***************************************************************************)
(* SpecClock: identities minted while the clock advances.  Every call      *)
(* mints (or replaces under) an identity derived from the clock reading.   *)
(***************************************************************************)
SaveSongMinting == SaveSongOver(<<FALSE>>, {}, PlainForm, BOOLEAN)

DeleteSongMinted == DeleteSongOver(DOMAIN songs)

CreateSetListMinting == CreateSetListOver({<<"A">>}, LeadSeqs)

NextClock ==
  \/ SaveSongMinting
  \/ DeleteSongMinted
  \/ CreateSetListMinting
  \/ Tick

SpecClock == Init /\ [][NextClock]_vars

(***************************************************************************)
(* SpecCalls: every call that can answer NotFound, updates and queries,    *)
(* with identities that are stored and identities that are not.            *)
(***************************************************************************)
SuppliedSetListIds == { <<"l", "1">>, <<"l", "2">> }

\* Snapshots: no songs or song "s1"; no set lists or "l1" on a LeadSeqs sequence.
CallSnapshots ==
  [songs : { a \in SnapshotSongArrays :
               Len(a) <= 1 /\ \A i \in 1..Len(a) : a[i].title = <<"X">> },
   setLists : { a \in SnapshotSetListArrays :
                  Len(a) <= 1 /\ \A i \in 1..Len(a) : a[i].songIds \in LeadSeqs }]

ImportCallsStep == ImportDataOver(CallSnapshots)

DeleteSongCall == DeleteSongOver(SuppliedSongIds)

UpdateSetListCall == UpdateSetListOver(SuppliedSetListIds, {<<"B">>}, {FirstSeq})

DeleteSetListCall == DeleteSetListOver(SuppliedSetListIds)

MoveSongInSetListCall == MoveSongInSetListOver(SuppliedSetListIds, SuppliedSongIds, {1})

GetSongCall == \E id \in SuppliedSongIds : GetSongQuery(id)

GetSongsInSetListCall == \E setListId \in SuppliedSetListIds : GetSongsInSetListQuery(setListId)

GetSetListSongInfoCall ==
  \E setListId \in SuppliedSetListIds : GetSetListSongInfoQuery(setListId)

NextCalls ==
  \/ ImportCallsStep
  \/ DeleteSongCall
  \/ UpdateSetListCall
  \/ DeleteSetListCall
  \/ MoveSongInSetListCall
  \/ GetSongCall
  \/ GetSongsInSetListCall
  \/ GetSetListSongInfoCall

SpecCalls == Init /\ [][NextCalls]_vars

(***************************************************************************)
(* SpecImport: snapshots in and out.  importData takes any of the song and *)
(* set list arrays, or the snapshot exportData has just returned; saveSong, *)
(* deleteSong and createSetList put the stores in states no import leaves.  *)
(***************************************************************************)
ImportSnapshots ==
  [songs : SnapshotSongArrays,
   setLists : { a \in SnapshotSetListArrays \cup RepeatedSetListArrays :
                  a # <<>> => a[1].songIds \in LeadSeqs }]

ImportAnyStep == ImportDataOver(ImportSnapshots)

ExportStep == ExportDataQuery

\* The caller hands back the snapshot exportData returned to it.
ImportExportedStep == last.op = "exportData" /\ ImportData(last.data)

SaveSongImported ==
  /\ SaveSongOver(<<TRUE, FALSE>>, {<<"s", "1">>},
                  {f \in SongForms : f.title # <<"x", " ">>}, {FALSE})
  /\ Cardinality(DOMAIN songs') <= MaxSongs

DeleteSongImported == DeleteSongOver({<<"s", "1">>})

CreateSetListImported == CreateSetListOver({<<"A">>}, {FirstSeq})

NextImport ==
  \/ ImportAnyStep
  \/ ExportStep
  \/ ImportExportedStep
  \/ SaveSongImported
  \/ DeleteSongImported
  \/ CreateSetListImported

SpecImport == Init /\ [][NextImport]_vars

(***************************************************************************)
(* SpecNormalizer: rebuildColorRanges on every lyrics text of up to        *)
(* MaxText characters and every list of up to MaxRanges highlights whose   *)
(* start is in -1..MaxText and whose end is in 0..MaxText + 1, and on its   *)
(* own result.                                                             *)
(***************************************************************************)
NormalizerTexts == { [i \in 1..n |-> "a"] : n \in 0..MaxText }

\* The i-th highlight of a list carries its own color.
HighlightLists ==
  UNION { [1..n -> [start : -1..MaxText, end : 0..(MaxText + 1)]] : n \in 0..MaxRanges }

Colored(ranges) ==
  [i \in 1..Len(ranges) |->
     [start |-> ranges[i].start, end |-> ranges[i].end, color |-> <<"c">> \o ToText(i)]]

InitNormalizer ==
  /\ songs = EmptyMap
  /\ setLists = EmptyMap
  /\ titleToId = EmptyMap
  /\ setListSongPositions = EmptyMap
  /\ now = 1
  /\ last = [op |-> "init"]
  /\ \E text \in NormalizerTexts, ranges \in HighlightLists :
       editor = [EditorDefault EXCEPT !.lyrics = text,
                                      !.colorHighlights = Colored(ranges)]

RebuildEditorStep == Rebuild(editor.lyrics, editor.colorHighlights)

RebuildResultStep == last.op = "rebuildColorRanges" /\ Rebuild(last.text, last.result)

NextNormalizer ==
  \/ RebuildEditorStep
  \/ RebuildResultStep

SpecNormalizer == InitNormalizer /\ [][NextNormalizer]_vars

(***************************************************************************)
(* SpecEditor: the editor on a lyrics text of up to two characters, with   *)
(* up to MaxRanges highlights, saving, previewing and reloading its song.  *)
(***************************************************************************)
EditorTexts == { <<>>, <<"a">>, <<"a", " ">>, <<" ", "a">> }

SetTitleStep == SetTitle(<<"X">>)

LyricsChangeStep == \E text \in EditorTexts : HandleLyricsChange(text)

\* The selection lies within the text the textarea shows.
ApplyTextColorStep ==
  /\ Len(editor.colorHighlights) < MaxRanges
  /\ \E start \in 0..Len(editor.lyrics), end \in 0..Len(editor.lyrics) :
       start <= end /\ HandleApplyTextColorInstantly(start, end, <<"r">>)

ClearTextColorsStep == HandleClearTextColors

LoadExistingSongStep == \E id \in DOMAIN songs : LoadExistingSong(id)

PerformSaveStep ==
  /\ \E replaceExisting \in BOOLEAN : PerformSave(replaceExisting)
  /\ Cardinality(DOMAIN songs') <= 1

PreviewStep == HandlePreviewClick

NextEditor ==
  \/ SetTitleStep
  \/ LyricsChangeStep
  \/ ApplyTextColorStep
  \/ ClearTextColorsStep
  \/ LoadExistingSongStep
  \/ PerformSaveStep
  \/ PreviewStep

SpecEditor == Init /\ [][NextEditor]_vars

(***************************************************************************)
(* SpecClient: the editor together with the two import paths.              *)
(***************************************************************************)
\* Song files: one whose range lacks start and end (read as 0 and 0), and one
\* with a range inside its lyrics.
SongFiles ==
  { [title |-> <<"X">>, lyrics |-> <<"l", "a">>,
     colorRanges |-> << [start |-> 0, end |-> 0, color |-> <<"r">>] >>],
    [title |-> <<"Y">>, lyrics |-> <<"l", "a">>,
     colorRanges |-> << [start |-> 0, end |-> 1, color |-> <<"r">>] >>] }

ClientSnapshots ==
  [songs : { a \in SnapshotSongArrays : \A i \in 1..Len(a) : a[i].id = <<"s", "1">> },
   setLists : {<<>>}]

ImportSongFileStep ==
  /\ \E file \in SongFiles : ImportSongFile(file)
  /\ Cardinality(DOMAIN songs') <= 1

ClientImportDataStep == \E data \in ClientSnapshots : ClientImportData(data)

NextClient ==
  \/ ImportSongFileStep
  \/ ClientImportDataStep
  \/ SetTitleStep
  \/ LyricsChangeStep
  \/ ApplyTextColorStep
  \/ ClearTextColorsStep
  \/ LoadExistingSongStep
  \/ PerformSaveStep
  \/ PreviewStep

SpecClient == Init /\ [][NextClient]_vars

(***************************************************************************)
(* SpecConflict: one client that imports snapshots and song files and      *)
(* saves from the editor through handleSaveClick and the title conflict    *)
(* dialog.  The dialog is modal: while it shows, only its buttons act.     *)
(* The snapshots hold one song per id, with titles as the editor saves     *)
(* them (trimmed).                                                         *)
(***************************************************************************)
ConflictSnapshots ==
  [songs : { a \in SnapshotSongArrays :
               /\ a # <<>>
               /\ \A i \in 1..Len(a) : a[i].title = Trim(a[i].title)
               /\ \A i, j \in 1..Len(a) : i # j => a[i].id # a[j].id },
   setLists : {<<>>}]

ConflictTitles == { <<"X">>, <<"Y">> }

ImportSnapshotStep ==
  /\ ~editor.showTitleConflictDialog
  /\ \E data \in ConflictSnapshots : ClientImportData(data)

ImportFileStep ==
  /\ ~editor.showTitleConflictDialog
  /\ \E file \in SongFiles : ImportSongFile(file)
  /\ Cardinality(DOMAIN songs') <= MaxSongs

EditTitleStep ==
  /\ ~editor.showTitleConflictDialog
  /\ \E title \in ConflictTitles : SetTitle(title)

OpenSongStep ==
  /\ ~editor.showTitleConflictDialog
  /\ \E id \in DOMAIN songs : LoadExistingSong(id)

SaveClickStep ==
  /\ ~editor.showTitleConflictDialog
  /\ HandleSaveClick
  /\ Cardinality(DOMAIN songs') <= MaxSongs

ReplaceStep == HandleTitleConflictReplace

SaveAsNewStep ==
  /\ HandleTitleConflictSaveAsNew
  /\ Cardinality(DOMAIN songs') <= MaxSongs

CancelStep == HandleTitleConflictCancel

NextConflict ==
  \/ ImportSnapshotStep
  \/ ImportFileStep
  \/ EditTitleStep
  \/ OpenSongStep
  \/ SaveClickStep
  \/ ReplaceStep
  \/ SaveAsNewStep
  \/ CancelStep

SpecConflict == Init /\ [][NextConflict]_vars

(***************************************************************************)
(* The set list mutations of the client on the set list "l1", the slots    *)
(* from S, the songs from I, the directions from D, the typed positions    *)
(* from V and the new names from N.                                        *)
(***************************************************************************)
Mutation(kind, songId, direction, inputValue, name) ==
  [NoMutation EXCEPT !.kind = kind, !.setListId = <<"l", "1">>, !.songId = songId,
                     !.direction = direction, !.inputValue = inputValue,
                     !.name = name]

\* A snapshot is imported only while no mutation is running.
ImportSetListsClientOver(A) ==
  /\ \A slot \in MutationSlots : editor.mutations[slot] = NoMutation
  /\ \E a \in A : ClientImportData([songs |-> <<>>, setLists |-> a])

AddSongOver(S, I) ==
  \E slot \in S, songId \in I :
    MutationFnReads(slot, Mutation("add", songId, "none", <<>>, <<>>))

RemoveSongOver(S, I) ==
  \E slot \in S, songId \in I :
    MutationFnReads(slot, Mutation("remove", songId, "none", <<>>, <<>>))

MoveSongOver(S, I, D) ==
  \E slot \in S, songId \in I, direction \in D :
    MutationFnReads(slot, Mutation("move", songId, direction, <<>>, <<>>))

RenameOver(S, N) ==
  \E slot \in S, newName \in N :
    MutationFnReads(slot, Mutation("rename", <<>>, "none", <<>>, newName))

PositionCommitOver(S, I, V) ==
  \E slot \in S, songId \in I, inputValue \in V :
    HandlePositionCommit(slot, <<"l", "1">>, songId, inputValue)

MutationWritesOver(S) == \E slot \in S : MutationFnWrites(slot)

(***************************************************************************)
(* SpecSetListClient: one client that imports the set list "l1" and edits  *)
(* it through the five mutation hooks, up to two mutations at a time.      *)
(***************************************************************************)
ClientSetListArrays ==
  { a \in SnapshotSetListArrays : Len(a) = 1 /\ a[1].songIds = FirstSeq }

ImportSetListsClientStep == ImportSetListsClientOver(ClientSetListArrays)

AddSongStep == AddSongOver(MutationSlots, SuppliedSongIds \cup {<<"s", "3">>})

RemoveSongStep == RemoveSongOver(MutationSlots, {<<"s", "1">>})

MoveSongStep == MoveSongOver(MutationSlots, {<<"s", "2">>}, {"up"})

RenameStep == RenameOver(MutationSlots, {<<"B">>})

PositionCommitStep == PositionCommitOver(MutationSlots, {<<"s", "1">>}, {ToText(MaxLen)})

MutationWritesStep == MutationWritesOver(MutationSlots)

NextSetListClient ==
  \/ ImportSetListsClientStep
  \/ AddSongStep
  \/ RemoveSongStep
  \/ MoveSongStep
  \/ RenameStep
  \/ PositionCommitStep
  \/ MutationWritesStep

SpecSetListClient == Init /\ [][NextSetListClient]_vars

(***************************************************************************)
(* SpecReorder: one client that imports the set list "l1" and reorders it  *)
(* with the arrows and the position input, one mutation at a time.         *)
(***************************************************************************)
ReorderSetListArrays == { a \in SnapshotSetListArrays : Len(a) <= 1 }

\* What the user can type into the position input of a song.
PositionInputs ==
  { <<>>, <<"x">>, <<"1", "x">> } \cup { ToText(n) : n \in 0..(MaxLen + 1) }

ImportReorderStep == ImportSetListsClientOver(ReorderSetListArrays)

MoveSongAnyStep == MoveSongOver({1}, SuppliedSongIds, {"up", "down"})

PositionCommitAnyStep == PositionCommitOver({1}, SuppliedSongIds, PositionInputs)

ReorderWritesStep == MutationWritesOver({1})

NextReorder ==
  \/ ImportReorderStep
  \/ MoveSongAnyStep
  \/ PositionCommitAnyStep
  \/ ReorderWritesStep

SpecReorder == Init /\ [][NextReorder]_vars

(***************************************************************************)
(* Properties                                                              *)
(***************************************************************************)
\* Every step rewrites last, so last' names the call a step made and last
\* the call before it.
Saved(l) == l.op = "saveSong"

Count(m) == Cardinality(DOMAIN m)

\* C1: after createSetList(name, songIds) returns id, getSetListSongInfo(id)
\* lists one position entry per element of songIds, in order, numbered 1..N.
C1_CreateBuildsPositions ==
  last.op = "createSetList" =>
    GetSetListSongInfo(last.id).songPositions =
      [i \in 1..Len(last.songIds) |->
         SetListSongPosition(last.songIds[i], i)]

RECURSIVE InsertByPosition(_, _)
\* Insert e after every entry whose position is not larger (stable).
InsertByPosition(sorted, e) ==
  IF sorted = <<>> THEN <<e>>
  ELSE IF Head(sorted).position <= e.position
       THEN <<Head(sorted)>> \o InsertByPosition(Tail(sorted), e)
       ELSE <<e>> \o sorted

RECURSIVE SortByPosition(_)
\* Stable sort ascending by position.
SortByPosition(positions) ==
  IF positions = <<>> THEN <<>>
  ELSE InsertByPosition(SortByPosition(SubSeq(positions, 1, Len(positions) - 1)),
                        positions[Len(positions)])

Renumber(positions) ==
  [i \in 1..Len(positions) |-> SetListSongPosition(positions[i].songId, i)]

\* C2: a successful moveSongInSetList(setListId, songId, newPosition) leaves
\* the table of setListId as the stable sort, ascending by position, of the
\* table in which songId holds newPosition, renumbered 1..N; and on the table
\* [s1:1, s2:2] moving s2 to position 1 leaves s2 first with position 1.
C2_MoveResequences ==
  [][ (last'.op = "moveSongInSetList" /\ last'.ok
       /\ last'.setListId \in DOMAIN setListSongPositions) =>
        LET l == last'.setListId
            given == UpdateSongPositionInSetList(setListSongPositions, l,
                                                 last'.songId, last'.newPosition)[l]
        IN /\ l \in DOMAIN setListSongPositions'
           /\ setListSongPositions'[l] = Renumber(SortByPosition(given))
           /\ ( /\ setListSongPositions[l] =
                     << SetListSongPosition(<<"s", "1">>, 1),
                        SetListSongPosition(<<"s", "2">>, 2) >>
                /\ last'.songId = <<"s", "2">>
                /\ last'.newPosition = 1 )
              => setListSongPositions'[l][1] = SetListSongPosition(<<"s", "2">>, 1)
    ]_vars

\* C3: saveSong with no id, replaceExisting = true and a title whose
\* normalized form is in the Title Index returns the indexed identity, leaves
\* the number of songs unchanged, keeps the song's createdAt and sets its
\* updatedAt to the time of the call.
C3_ReplaceKeepsCreatedAt ==
  [][ (Saved(last') /\ last'.branch = "replace") =>
        LET e == titleToId[NormalizeTitle(last'.title)]
        IN /\ last'.songId = e
           /\ Count(songs') = Count(songs)
           /\ e \in DOMAIN songs /\ e \in DOMAIN songs'
           /\ songs'[e].createdAt = songs[e].createdAt
           /\ songs'[e].updatedAt = now
    ]_vars

\* C4: saveSong with the id of an existing song returns that id, keeps the
\* createdAt the song had before the call and sets updatedAt to the time of
\* the call, whatever the title and replaceExisting.
C4_UpdateKeepsCreatedAt ==
  [][ (Saved(last') /\ last'.hasId /\ last'.id \in DOMAIN songs) =>
        /\ last'.songId = last'.id
        /\ last'.id \in DOMAIN songs'
        /\ songs'[last'.id].createdAt = songs[last'.id].createdAt
        /\ songs'[last'.id].updatedAt = now
    ]_vars

\* C4 witness: an existing song was saved under its id at a later clock
\* reading than its creation, with replaceExisting set.
C4_Witness ==
  /\ Saved(last) /\ last.hasId /\ last.replaceExisting
  /\ songs[last.songId].createdAt < songs[last.songId].updatedAt
  /\ songs[last.songId].updatedAt = now

\* C5: saveSong(null, "X", replaceExisting = false) followed by
\* saveSong(null, "x ", replaceExisting = false) leaves two distinct song
\* records under two distinct identities, isTitleUnique("X") false, and the
\* Title Index entry of the normalized title on the second identity.
C5_TwoSavesTwoSongs ==
  [][ ( /\ Saved(last) /\ ~last.hasId /\ ~last.replaceExisting
        /\ last.title = <<"X">>
        /\ Saved(last') /\ ~last'.hasId /\ ~last'.replaceExisting
        /\ last'.title = <<"x", " ">> ) =>
        /\ last'.songId # last.songId
        /\ {last.songId, last'.songId} \subseteq DOMAIN songs'
        /\ songs'[last.songId].title = <<"X">>
        /\ songs'[last'.songId].title = <<"x", " ">>
        /\ NormalizeTitle(<<"X">>) \in DOMAIN titleToId'
        /\ titleToId'[NormalizeTitle(<<"X">>)] = last'.songId
    ]_vars

\* C6: every song in the Song Store has a Title Index entry for its
\* normalized title (isTitleUnique(song.title) is false for every live song).
C6_EveryLiveTitleIndexed ==
  \A id \in DOMAIN songs : ~IsTitleUnique(songs[id].title)

\* C7: every Title Index entry maps its key to a song that is in the Song
\* Store and whose normalized title is that key.
C7_IndexEntriesOwned ==
  \A key \in DOMAIN titleToId :
    /\ titleToId[key] \in DOMAIN songs
    /\ NormalizeTitle(songs[titleToId[key]].title) = key

\* C8: after saveSong with title t returns r, the Title Index maps
\* normalizeTitle(t) to r and the Song Store holds under r a record with the
\* fields given in the call.
C8_SaveIndexesResult ==
  Saved(last) =>
    /\ NormalizeTitle(last.title) \in DOMAIN titleToId
    /\ titleToId[NormalizeTitle(last.title)] = last.songId
    /\ last.songId \in DOMAIN songs
    /\ songs[last.songId].id = last.songId
    /\ songs[last.songId].title = last.title
    /\ songs[last.songId].lyrics = last.lyrics
    /\ songs[last.songId].colorRanges = last.colorRanges

\* C8 witness: a save-as-new under a title already indexed; both songs are
\* stored and the index is on the new one.
C8_Witness ==
  /\ Saved(last) /\ last.branch = "asNew"
  /\ Count(songs) = 2
  /\ \E id \in DOMAIN songs :
       /\ id # last.songId
       /\ NormalizeTitle(songs[id].title) = NormalizeTitle(last.title)

\* C9: deleteSong(id) of an existing song removes that song and every entry
\* with that song id from every set list's Position Side-Table, and leaves
\* every set list record and every other song as they were.
C9_DeleteSongFrame ==
  [][ (last'.op = "deleteSong" /\ last'.ok) =>
        LET id == last'.id
        IN /\ id \in DOMAIN songs
           /\ DOMAIN songs' = DOMAIN songs \ {id}
           /\ \A k \in DOMAIN songs' : songs'[k] = songs[k]
           /\ setLists' = setLists
           /\ DOMAIN setListSongPositions' = DOMAIN setListSongPositions
           /\ \A l \in DOMAIN setListSongPositions :
                setListSongPositions'[l] =
                  SelectSeq(setListSongPositions[l], LAMBDA e : e.songId # id)
    ]_vars

\* C9 witness: a song listed by two set lists was deleted; both id sequences
\* still name it, both tables lost its entries, and another song remains.
C9_Witness ==
  /\ last.op = "deleteSong" /\ last.ok
  /\ songs # EmptyMap
  /\ Count(setListSongPositions) = 2
  /\ \A l \in DOMAIN setListSongPositions :
       /\ l \in DOMAIN setLists
       /\ InSongIds(setLists[l].songIds, last.id)
       /\ Len(setListSongPositions[l]) < Len(setLists[l].songIds)
       /\ setListSongPositions[l] # <<>>

\* The songs of an id sequence: its resolvable ids in order, each mapped to
\* its stored record.
ResolvedSongs(songIds) ==
  LET ids == SelectSeq(songIds, LAMBDA i : i \in DOMAIN songs)
  IN [k \in 1..Len(ids) |-> songs[ids[k]]]

\* C10: getSongsInSetList(setListId) is the set list's id sequence in order
\* with each resolvable id replaced by its current record and every other id
\* dropped.
C10_SongsInSetList ==
  \A l \in DOMAIN setLists : GetSongsInSetList(l) = ResolvedSongs(setLists[l].songIds)

\* C10 witness: after deleteSong of a listed song, a set list that names the
\* deleted song before a stored one returns just the stored one.
C10_Witness ==
  /\ last.op = "deleteSong" /\ last.ok
  /\ \E l \in DOMAIN setLists :
       /\ setLists[l].songIds[1] = last.id
       /\ Len(GetSongsInSetList(l)) = Len(setLists[l].songIds) - 1
       /\ GetSongsInSetList(l) # <<>>

\* The identity named by the call of this step is absent from the store the
\* call looks it up in (for moveSongInSetList: the set list is absent or the
\* song id is not in its id sequence).
AbsentIdentity ==
  CASE last'.op \in {"getSong", "deleteSong"} -> last'.id \notin DOMAIN songs
    [] last'.op \in {"updateSetList", "deleteSetList"} -> last'.id \notin DOMAIN setLists
    [] last'.op \in {"getSongsInSetList", "getSetListSongInfo"} ->
         last'.setListId \notin DOMAIN setLists
    [] last'.op = "moveSongInSetList" ->
         \/ last'.setListId \notin DOMAIN setLists
         \/ ~InSongIds(setLists[last'.setListId].songIds, last'.songId)
    [] OTHER -> FALSE

\* C11: getSong, deleteSong, updateSetList, deleteSetList, getSongsInSetList,
\* getSetListSongInfo on an absent identity, and moveSongInSetList on an
\* absent set list or a song id outside the id sequence, fail and leave the
\* Song Store, Set List Store, Title Index and Position Side-Tables as they
\* were.
C11_NotFoundLeavesStore ==
  [][ AbsentIdentity =>
        /\ ~last'.ok
        /\ UNCHANGED <<songs, setLists, titleToId, setListSongPositions>>
    ]_vars

\* C11 witness: moveSongInSetList failed on a stored set list with a table,
\* for a song that is stored but is not in the id sequence.
C11_Witness ==
  /\ last.op = "moveSongInSetList" /\ ~last.ok
  /\ last.setListId \in DOMAIN setLists
  /\ last.setListId \in DOMAIN setListSongPositions
  /\ last.songId \notin {setLists[last.setListId].songIds[i] :
                            i \in 1..Len(setLists[last.setListId].songIds)}

\* The elements of an array.
Elements(array) == {array[i] : i \in 1..Len(array)}

\* C12: after importData(P) the Song Store holds only songs of P and the Set
\* List Store only set lists of P, the Title Index and the Position
\* Side-Tables hold nothing from before; after importData of two empty arrays
\* exportData returns two empty arrays and isTitleUnique is true of every
\* title.
C12_ImportReplaces ==
  last.op = "importData" =>
    /\ \A id \in DOMAIN songs : songs[id] \in Elements(last.data.songs)
    /\ \A id \in DOMAIN setLists : setLists[id] \in Elements(last.data.setLists)
    /\ DOMAIN titleToId \subseteq
         {NormalizeTitle(song.title) : song \in Elements(last.data.songs)}
    /\ DOMAIN setListSongPositions \subseteq
         {setList.id : setList \in Elements(last.data.setLists)}
    /\ (last.data.songs = <<>> /\ last.data.setLists = <<>>) =>
         /\ ExportData = [songs |-> <<>>, setLists |-> <<>>]
         /\ \A form \in SongForms : IsTitleUnique(form.title)

\* C12 witness: the two empty arrays were imported; the stores and the
\* export are empty and every title is free.
C12_Witness ==
  /\ last.op = "importData"
  /\ last.data = [songs |-> <<>>, setLists |-> <<>>]
  /\ ExportData = [songs |-> <<>>, setLists |-> <<>>]
  /\ titleToId = EmptyMap /\ setListSongPositions = EmptyMap
  /\ \A form \in SongForms : IsTitleUnique(form.title)

\* The table [(songIds[i], i + 1) for i = 0..N-1], written 1-based.
SequentialTable(songIds) ==
  [i \in 1..Len(songIds) |-> [songId |-> songIds[i], position |-> i]]

\* The Title Index holds, for the title of every song of the array, the id of
\* the last song of the array with that normalized title.
IndexOnLastOfTitle(songArray) ==
  \A i \in 1..Len(songArray) :
    LET key == NormalizeTitle(songArray[i].title)
        j == CHOOSE n \in i..Len(songArray) :
               /\ NormalizeTitle(songArray[n].title) = key
               /\ \A o \in (n + 1)..Len(songArray) :
                    NormalizeTitle(songArray[o].title) # key
    IN key \in DOMAIN titleToId /\ titleToId[key] = songArray[j].id

\* C13: after importData(P), for every set list L in P the Position
\* Side-Table of L.id is [(L.songIds[i], i+1)], and for every normalized title
\* among P's songs the Title Index points to the last song of P with it.
C13_ImportRebuilds ==
  last.op = "importData" =>
    /\ \A L \in Elements(last.data.setLists) :
         /\ L.id \in DOMAIN setListSongPositions
         /\ setListSongPositions[L.id] = SequentialTable(L.songIds)
    /\ IndexOnLastOfTitle(last.data.songs)

\* C13 amended: after importData(P), for every set list L of P that no later
\* set list of P shares its id with, the Position Side-Table of L.id is
\* [(L.songIds[i], i+1)]; and for every normalized title among P's songs the
\* Title Index points to the last song of P with it.
C13_ImportRebuildsLastOfId ==
  last.op = "importData" =>
    /\ \A i \in 1..Len(last.data.setLists) :
         LET L == last.data.setLists[i]
         IN (\A o \in (i + 1)..Len(last.data.setLists) :
               last.data.setLists[o].id # L.id) =>
              /\ L.id \in DOMAIN setListSongPositions
              /\ setListSongPositions[L.id] = SequentialTable(L.songIds)
    /\ IndexOnLastOfTitle(last.data.songs)

\* C13 witness: the snapshot imported has two songs with one normalized title
\* and two set lists with one id and different id sequences; the index is on
\* the second song and the table is that of the second set list.
C13_Witness ==
  /\ last.op = "importData"
  /\ Len(last.data.songs) = 2 /\ Len(last.data.setLists) = 2
  /\ last.data.songs[1].id # last.data.songs[2].id
  /\ NormalizeTitle(last.data.songs[1].title) = NormalizeTitle(last.data.songs[2].title)
  /\ titleToId[NormalizeTitle(last.data.songs[1].title)] = last.data.songs[2].id
  /\ last.data.setLists[1].id = last.data.setLists[2].id
  /\ last.data.setLists[1].songIds # last.data.setLists[2].songIds
  /\ setListSongPositions[last.data.setLists[2].id] =
       SequentialTable(last.data.setLists[2].songIds)

\* The records a store holds.
Records(m) == {m[k] : k \in DOMAIN m}

\* C14: exportData returns every song of the Song Store and every set list
\* of the Set List Store, each once; and importData of the snapshot that
\* exportData has just returned leaves the set of song records, the set of
\* set list records and the result of a following exportData unchanged.
C14_SnapshotRoundTrips ==
  [][ /\ last'.op = "exportData" =>
           /\ Elements(last'.data.songs) = Records(songs)
           /\ Len(last'.data.songs) = Count(songs)
           /\ Elements(last'.data.setLists) = Records(setLists)
           /\ Len(last'.data.setLists) = Count(setLists)
      /\ (last.op = "exportData" /\ last'.op = "importData" /\ last'.data = last.data) =>
           /\ Records(songs') = Records(songs)
           /\ Records(setLists') = Records(setLists)
           /\ ExportData' = ExportData
    ]_vars

\* C14 witness: a snapshot holding a saved song and a created set list went
\* out and came back; the created set list has its table from the import.
C14_Witness ==
  /\ last.op = "importData" /\ last.data = ExportData
  /\ \E id \in DOMAIN songs : songs[id].updatedAt = now
  /\ \E l \in DOMAIN setLists :
       /\ setLists[l].createdAt = now
       /\ l \in DOMAIN setListSongPositions
  /\ Count(songs) = 2

\* Ranges in ascending order of start, each start at or after the end before it.
SortedApart(ranges) ==
  \A i \in 1..(Len(ranges) - 1) :
    /\ ranges[i].start <= ranges[i + 1].start
    /\ ranges[i + 1].start >= ranges[i].end

WithinText(ranges, text) ==
  \A i \in 1..Len(ranges) :
    0 <= ranges[i].start /\ ranges[i].start < ranges[i].end /\ ranges[i].end <= Len(text)

\* C15: for every text t and every list R of color ranges, overlapping,
\* inverted, empty and out-of-bounds ones included, rebuildColorRanges(t, R)
\* is sorted ascending by start, pairwise non-overlapping, and every range
\* satisfies 0 <= start < end <= length(t).
C15_RebuildNormalizes ==
  last.op = "rebuildColorRanges" =>
    SortedApart(last.result) /\ WithinText(last.result, last.text)

\* C15 witness: two overlapping in-bounds ranges given in descending order of
\* start were rebuilt to the one that starts first.
C15_Witness ==
  /\ last.op = "rebuildColorRanges"
  /\ Len(last.highlights) = 2 /\ WithinText(last.highlights, last.text)
  /\ last.highlights[1].start > last.highlights[2].start
  /\ last.highlights[1].start < last.highlights[2].end
  /\ last.result = << last.highlights[2] >>

\* In-bounds, non-empty and pairwise non-overlapping.
ValidRanges(ranges, text) ==
  /\ WithinText(ranges, text)
  /\ \A i, j \in 1..Len(ranges) :
       i # j => (ranges[i].end <= ranges[j].start \/ ranges[j].end <= ranges[i].start)

\* C16: for in-bounds, non-empty, pairwise non-overlapping R,
\* rebuildColorRanges(t, R) is R sorted ascending by start; and for every R,
\* rebuilding the result of rebuildColorRanges(t, R) returns it unchanged.
C16_RebuildKeepsValid ==
  [][ last'.op = "rebuildColorRanges" =>
        /\ ValidRanges(last'.highlights, last'.text) =>
             /\ Len(last'.result) = Len(last'.highlights)
             /\ Elements(last'.result) = Elements(last'.highlights)
             /\ SortedApart(last'.result)
        /\ ( /\ last.op = "rebuildColorRanges"
             /\ last'.text = last.text
             /\ last'.highlights = last.result ) => last'.result = last.result
    ]_vars

\* C16 witness: two valid ranges given in descending order, the later one
\* ending at the end of the text, came back in ascending order.
C16_Witness ==
  /\ last.op = "rebuildColorRanges"
  /\ Len(last.highlights) = 2 /\ ValidRanges(last.highlights, last.text)
  /\ last.highlights[1].end = Len(last.text)
  /\ last.result = << last.highlights[2], last.highlights[1] >>

\* C17: every song written by the editor save path and every song handed to
\* preview carries color ranges with 0 <= start < end <= length of the lyrics
\* stored or previewed with them.
C17_EditorRangesFitLyrics ==
  /\ Saved(last) =>
       /\ WithinText(last.colorRanges, last.lyrics)
       /\ WithinText(songs[last.songId].colorRanges, songs[last.songId].lyrics)
  /\ last.op = "preview" => WithinText(last.song.colorRanges, last.song.lyrics)

\* C18: every stored song's color ranges satisfy 0 <= start < end <=
\* length(lyrics), do not overlap and are sorted by start.
C18_StoredRangesNormalized ==
  \A id \in DOMAIN songs :
    /\ WithinText(songs[id].colorRanges, songs[id].lyrics)
    /\ SortedApart(songs[id].colorRanges)

\* C19: updateSetList(id, name, songIds) on an existing set list replaces its
\* name and its id sequence, keeps its createdAt, and leaves its Position
\* Side-Table, every other set list, all songs and the Title Index unchanged.
C19_UpdateSetListFrame ==
  [][ (last'.op = "updateSetList" /\ last'.ok) =>
        LET id == last'.id
        IN /\ id \in DOMAIN setLists
           /\ DOMAIN setLists' = DOMAIN setLists
           /\ setLists'[id].id = id
           /\ setLists'[id].name = last'.name
           /\ setLists'[id].songIds = last'.songIds
           /\ setLists'[id].createdAt = setLists[id].createdAt
           /\ \A other \in DOMAIN setLists \ {id} : setLists'[other] = setLists[other]
           /\ setListSongPositions' = setListSongPositions
           /\ songs' = songs
           /\ titleToId' = titleToId
    ]_vars

\* C19 witness: a set list older than the call was given a new name and a
\* new id sequence; its table still lists the old sequence, and songs and
\* another set list are stored.
C19_Witness ==
  /\ last.op = "updateSetList" /\ last.ok
  /\ setLists[last.id].name = last.name
  /\ setLists[last.id].createdAt < setLists[last.id].updatedAt
  /\ last.id \in DOMAIN setListSongPositions
  /\ setListSongPositions[last.id] # SequentialTable(setLists[last.id].songIds)
  /\ Len(setListSongPositions[last.id]) = Len(setLists[last.id].songIds)
  /\ Count(setLists) >= 2
  /\ songs # EmptyMap

\* C20: deleteSetList(id) removes the set list and its Position Side-Table
\* and nothing else; and after every step every Position Side-Table belongs
\* to a set list of the Set List Store.
C20_DeleteSetListNoOrphans ==
  [][ /\ (last'.op = "deleteSetList" /\ last'.ok) =>
           LET id == last'.id
           IN /\ id \in DOMAIN setLists
              /\ DOMAIN setLists' = DOMAIN setLists \ {id}
              /\ \A other \in DOMAIN setLists' : setLists'[other] = setLists[other]
              /\ DOMAIN setListSongPositions' = DOMAIN setListSongPositions \ {id}
              /\ \A other \in DOMAIN setListSongPositions' :
                   setListSongPositions'[other] = setListSongPositions[other]
              /\ songs' = songs
              /\ titleToId' = titleToId
      /\ DOMAIN setListSongPositions' \subseteq DOMAIN setLists'
    ]_vars

\* C20 witness: the set list "l1" was deleted; its table is gone, and a set
\* list with its table, a set list without one and a song remain.
C20_Witness ==
  /\ last.op = "deleteSetList" /\ last.ok
  /\ last.id \notin DOMAIN setLists \cup DOMAIN setListSongPositions
  /\ setListSongPositions # EmptyMap
  /\ DOMAIN setLists \ DOMAIN setListSongPositions # {}
  /\ songs # EmptyMap

\* C21: createSetList, and saveSong without id on its create and save-as-new
\* branches, assign an identity that is not yet a key of the store written,
\* so the call adds exactly one record, also when an earlier minting call
\* read the same clock value.
C21_MintedIdentityIsFresh ==
  [][ /\ last'.op = "createSetList" =>
           /\ last'.id \notin DOMAIN setLists
           /\ Count(setLists') = Count(setLists) + 1
      /\ (Saved(last') /\ last'.branch \in {"create", "asNew"}) =>
           /\ last'.songId \notin DOMAIN songs
           /\ Count(songs') = Count(songs) + 1
    ]_vars

\* Step 1 of the specified algorithm: discard the ranges with start >= end,
\* start < 0 or end > length(text).
Discard(ranges, text) ==
  SelectSeq(ranges, LAMBDA h : ~(h.start >= h.end \/ h.start < 0 \/ h.end > Len(text)))

\* Step 2: ascending by start, ranges of equal start in the order given.  The
\* place of range i is one more than the number of ranges that go before it.
Ascending(ranges) ==
  LET before(i) == {j \in 1..Len(ranges) :
                      \/ ranges[j].start < ranges[i].start
                      \/ ranges[j].start = ranges[i].start /\ j < i}
  IN [k \in 1..Len(ranges) |->
        ranges[CHOOSE i \in 1..Len(ranges) : Cardinality(before(i)) = k - 1]]

RECURSIVE CursorScan(_, _, _)
\* Step 3: from range k on, accept a range iff its start is at or after the
\* cursor, and move the cursor to its end.
CursorScan(ranges, k, cursor) ==
  IF k > Len(ranges) THEN <<>>
  ELSE IF ranges[k].start >= cursor
       THEN <<ranges[k]>> \o CursorScan(ranges, k + 1, ranges[k].end)
       ELSE CursorScan(ranges, k + 1, cursor)

\* C22: rebuildColorRanges(t, R) is the result of the three steps discard,
\* sort ascending by start, scan with a cursor from 0; every range of the
\* result is a range of R with its start, end and color, and none of them
\* overlaps another.
C22_RebuildIsThreeSteps ==
  last.op = "rebuildColorRanges" =>
    /\ last.result = CursorScan(Ascending(Discard(last.highlights, last.text)), 1, 0)
    /\ Elements(last.result) \subseteq Elements(last.highlights)
    /\ \A i, j \in 1..Len(last.result) :
         i < j => last.result[i].end <= last.result[j].start

\* C22 witness: an in-bounds range and, before it in the list, a range that
\* starts later, overlaps it and runs past the text; the result is the
\* in-bounds range alone, as given.
C22_Witness ==
  /\ last.op = "rebuildColorRanges"
  /\ Len(last.highlights) = 2
  /\ last.highlights[1].end > Len(last.text)
  /\ last.highlights[1].start > last.highlights[2].start
  /\ last.highlights[1].start < last.highlights[2].end
  /\ last.highlights[1].start < Len(last.text)
  /\ last.result = << last.highlights[2] >>

\* The table can be derived from the id sequence: one entry per element of
\* the sequence, the same song ids as often as the sequence names them, and
\* positions 1..N.
Rederivable(table, songIds) ==
  /\ Len(table) = Len(songIds)
  /\ \A i \in 1..Len(table) : table[i].position = i
  /\ \A x \in Elements(songIds) \cup {table[i].songId : i \in 1..Len(table)} :
       Cardinality({i \in 1..Len(table) : table[i].songId = x}) =
         Cardinality({i \in 1..Len(songIds) : songIds[i] = x})

\* C23: a successful moveSongInSetList leaves the Position Side-Table of the
\* set list re-derivable from the set list's current id sequence, also when
\* updateSetList has replaced the sequence since the table was built.  Stated
\* for set lists that have a table when the move is called.
C23_MoveRebuildsStaleTable ==
  [][ ( /\ last'.op = "moveSongInSetList" /\ last'.ok
        /\ last'.setListId \in DOMAIN setListSongPositions ) =>
        /\ last'.setListId \in DOMAIN setListSongPositions'
        /\ Rederivable(setListSongPositions'[last'.setListId],
                       setLists'[last'.setListId].songIds)
    ]_vars

\* A saveSong call without id and with replaceExisting = false.
PlainSave(l) == Saved(l) /\ ~l.hasId /\ ~l.replaceExisting

\* C24: two saveSong calls without id and with replaceExisting = false for
\* one normalized title, run by the actor one after the other, both succeed;
\* afterwards both song records are in the Song Store and the Title Index
\* entry of the title is the identity written by the second.
C24_BothSavesStored ==
  [][ ( /\ PlainSave(last) /\ PlainSave(last')
        /\ NormalizeTitle(last.title) = NormalizeTitle(last'.title) ) =>
        /\ last.songId # last'.songId
        /\ last.songId \in DOMAIN songs' /\ last'.songId \in DOMAIN songs'
        /\ Count(songs') = Count(songs) + 1
        /\ titleToId'[NormalizeTitle(last'.title)] = last'.songId
    ]_vars

(***************************************************************************)
(* C25: a title conflict is surfaced before the write.  A save from the    *)
(* editor or from a song file whose normalized title is the Title Index    *)
(* key of another song is the answer to the conflict dialog, and the       *)
(* client's check on the form reports a conflict exactly when the Title    *)
(* Index holds the normalized title for another song.                      *)
(***************************************************************************)
\* The Title Index holds the normalized title for a song other than id.
IndexConflict(title, hasId, id) ==
  /\ NormalizeTitle(title) \in DOMAIN titleToId
  /\ (~hasId \/ titleToId[NormalizeTitle(title)] # id)

C25_ConflictSurfacedBeforeWrite ==
  [][ /\ (last'.op = "saveSong" /\ IndexConflict(last'.title, last'.hasId, last'.id))
          => editor.showTitleConflictDialog
      /\ Trim(editor.title) # <<>> =>
           ( CheckTitleConflict(editor.allSongs, Trim(editor.title),
                                editor.hasId, editor.id) # NoSong
             <=> IndexConflict(Trim(editor.title), editor.hasId, editor.id) )
    ]_vars

(***************************************************************************)
(* C26: "Replace existing song" overwrites the conflicting song the check  *)
(* found, under that song's identity, and leaves no song with the          *)
(* normalized title that did not have it before, in create mode and when   *)
(* another song is under edit.                                             *)
(***************************************************************************)
\* The identities of the songs of m whose title normalizes as title does.
Titled(m, title) ==
  { k \in DOMAIN m : NormalizeTitle(m[k].title) = NormalizeTitle(title) }

C26_ReplaceOverwritesConflictingSong ==
  [][ ( /\ editor.showTitleConflictDialog
        /\ last'.op = "saveSong" /\ last'.replaceExisting ) =>
        /\ last'.songId = editor.conflictingSong.id
        /\ songs'[editor.conflictingSong.id].title = last'.title
        /\ DOMAIN songs' = DOMAIN songs
        /\ Titled(songs', last'.title) \subseteq Titled(songs, last'.title)
    ]_vars

(***************************************************************************)
(* C27: in every reachable state every Position Side-Table holds the       *)
(* positions 1..N in table order, N being its number of entries.           *)
(***************************************************************************)
C27_PositionsAreOneToN ==
  \A l \in DOMAIN setListSongPositions :
    \A i \in 1..Len(setListSongPositions[l]) :
      setListSongPositions[l][i].position = i

(***************************************************************************)
(* C28: moveSongInSetList changes nothing but the Position Side-Table of   *)
(* the named set list: the set lists, the songs, the Title Index and the   *)
(* tables of the other set lists are as before, and getSongsInSetList      *)
(* returns for every set list what it returned before the call.            *)
(***************************************************************************)
C28_MoveFrame ==
  [][ last'.op = "moveSongInSetList" =>
        /\ setLists' = setLists
        /\ songs' = songs
        /\ titleToId' = titleToId
        /\ DOMAIN setListSongPositions' = DOMAIN setListSongPositions
        /\ \A l \in DOMAIN setListSongPositions \ {last'.setListId} :
             setListSongPositions'[l] = setListSongPositions[l]
        /\ \A l \in DOMAIN setLists :
             GetSongsInSetList(l)' = GetSongsInSetList(l)
    ]_vars

\* A move has rewritten the table of a set list whose songs resolve, and the
\* table's order is not the order of the id sequence.
C28_Witness ==
  /\ last.op = "moveSongInSetList" /\ last.ok
  /\ last.setListId \in DOMAIN setListSongPositions
  /\ GetSongsInSetList(last.setListId) # <<>>
  /\ \E i \in 1..Len(setListSongPositions[last.setListId]) :
       /\ i <= Len(setLists[last.setListId].songIds)
       /\ setListSongPositions[last.setListId][i].songId #
            setLists[last.setListId].songIds[i]

(***************************************************************************)
(* C29: client set list edits are not lost when two mutations overlap.     *)
(* When a mutation writes, the set list holds afterwards the mutation's    *)
(* edit applied to the set list as it was just before the write, so the    *)
(* edit another mutation wrote in between is still there.                  *)
(***************************************************************************)
C29_EditsNotLost ==
  [][ \A slot \in MutationSlots :
        ( /\ editor.mutations[slot] # NoMutation
          /\ editor'.mutations[slot] = NoMutation
          /\ last'.ok ) =>
          LET m == editor.mutations[slot]
              current == setLists[m.setListId]
              plan == MutationPlan(m, current, current)
          IN /\ setLists'[m.setListId].songIds = plan.songIds
             /\ setLists'[m.setListId].name = plan.name
    ]_vars

(***************************************************************************)
(* C30: client-side reordering writes a permutation of the sequence it     *)
(* read.  For handlePositionCommit and for useMoveSongInSetList, a target  *)
(* index in range and other than the song's index gives a sequence of the  *)
(* same length with every id as often as before, the moved song at the     *)
(* target index and the other songs in their previous order; any other     *)
(* target gives no write.                                                  *)
(***************************************************************************)
\* The 0-based target index a reordering asks for; -1 when it asks for none.
TargetIndex(call) ==
  LET currentIndex == IndexOf(call.read, call.songId)
  IN IF call.kind = "move"
     THEN IF currentIndex = -1 THEN -1
          ELSE IF call.direction = "up" THEN currentIndex - 1 ELSE currentIndex + 1
     ELSE IF ParseInt(call.inputValue).isNaN THEN -1
          ELSE ParseInt(call.inputValue).value - 1

====
